---- MODULE Spec2Model ----
(***************************************************************************)
(* Model of the authentication / token lifecycle of strava-mcp:            *)
(*   src/strava_mcp/tokens.py  - the in-memory credential store            *)
(*   src/strava_mcp/oauth.py   - CSRF state tracker and OAuth callback     *)
(*   src/strava_mcp/server.py  - get_authenticated_client (refresh lock),  *)
(*                               the listener thread and the tools         *)
(*                                                                         *)
(* The specifications share the variables:                                 *)
(*   SpecStore   - the store API of tokens.py called with bounded inputs   *)
(*   SpecThreads - the store API called from several threads, with _lock   *)
(*   SpecObjects - the store and the dict objects its callers hold         *)
(*   SpecOAuth   - the OAuth listener: GET / and GET /strava-oauth         *)
(*   SpecStates  - the CSRF state tracker of oauth.py called directly      *)
(*   Spec        - concurrent get_authenticated_client callers             *)
(*   SpecLive    - the three locks, entered step by step by callers that   *)
(*                 call again and again, under fair scheduling             *)
(*   SpecTools   - the lifecycle tools of server.py                        *)
(*   SpecFlow    - an authorization from the rendered URL to the callback  *)
(*   SpecSession - logout and authenticate beside running callers          *)
(*   SpecData    - a data tool call, step by step, beside logout           *)
(*   SpecWriters - the callback, authenticate and a refresh writing tokens *)
(*   SpecManager - the lifecycle of the listener thread                    *)
(***************************************************************************)
EXTENDS Integers, Sequences, FiniteSets, TLC

VARIABLES
    now,              \* the wall clock read by time.time() / datetime.now()
    ticks,            \* how many times the clock has advanced (bounds it)
    _tokens,          \* tokens.py: _tokens, the stored TokenDict or None
    last,             \* SpecStore: the last store API call and its outcome
    saved,            \* SpecStore: the last write made to the store
    _lock,            \* tokens.py: _lock, 0 = free, else the holding thread
    th,               \* per store thread: its call in progress
    hist,             \* history: call and return events of the store calls
    heap,             \* the dict objects alive, by object identity
    storeObj,         \* the object _tokens refers to, 0 for None
    _pending_states,  \* oauth.py: _pending_states, state -> timestamp
    removed,          \* history: how each state token left _pending_states
    vlog,             \* history: per issued state token, its validate calls
    issuedAt,         \* SpecStates: history, when each token was generated
    req,              \* per callback request in flight: its parameters
    cpc,              \* per callback request: position in logged_in
    response,         \* the callback request answered last, and its view
    exchanges,        \* history: the code-for-token exchange calls made
    page,             \* the last response of GET /
    sent,             \* the HTTP response the listener sent last
    env,              \* whether STRAVA_CLIENT_ID / _SECRET are configured
    _thread,          \* server.py: _oauth_manager._thread, 0 for None
    listeners,        \* the listener threads created, each with its status
    auth,             \* the authenticate call in progress: its position in
                      \*   _exchange_and_get_athlete
    running,          \* per caller: the data tool call whose body it runs
    _state_lock,      \* oauth.py: _state_lock, 0 = free, else the holder
    nested,           \* history: <<l, m>> when a thread holding lock l
                      \*   entered 'with m'
    refreshed,        \* per caller: the token set of the refresh response it
                      \*   has not saved yet
    _refresh_lock,    \* server.py: _refresh_lock, 0 = free, else the holder
    pc,               \* per caller: position in get_authenticated_client
    result,           \* per caller: what the call returned or raised
    calledExpired,    \* history per caller: store held an expired set when
                      \*   the call was made
    refreshes         \* history: the provider refresh calls, in order

vars == <<now, ticks, _tokens, last, saved, _lock, th, hist, heap, storeObj,
          _pending_states, removed, vlog, issuedAt,
          req, cpc, response, exchanges, page, sent, env, _thread, listeners,
          auth, running, _state_lock, nested, refreshed, _refresh_lock,
          pc, result, calledExpired, refreshes>>

threadVars == <<_lock, th, hist>>
objectVars == <<heap, storeObj>>
storeVars == <<last, saved, threadVars, objectVars>>
oauthVars == <<_pending_states, removed, vlog, issuedAt, req, cpc, response,
               exchanges, page, sent>>
managerVars == <<_thread, listeners>>
toolVars == <<auth, running>>
envVars == <<env, _state_lock, nested, refreshed>>
callerVars == <<_refresh_lock, pc, result, calledExpired, refreshes>>

(***************************************************************************)
(* Bounds of the model                                                     *)
(***************************************************************************)
StartTime == 1000      \* clock value at process start
MaxTicks == 2          \* clock advances per behaviour
NumStates == 1         \* state tokens secrets.token_urlsafe can hand out
NumRequests == 2       \* callback requests served
NumCallers == 2        \* concurrent get_authenticated_client callers
NumThreads == 2        \* threads calling the store API
MaxCalls == 3          \* store API calls made by the threads together
MaxObjects == 3        \* dict objects alive in one behaviour
MaxLogins == 3         \* SpecStates: state tokens generated in one behaviour
MaxStarts == 4         \* listener threads created in one behaviour

(***************************************************************************)
(* Program constants                                                       *)
(***************************************************************************)
STATE_TTL_SECONDS == 600

(***************************************************************************)
(* Python values                                                           *)
(***************************************************************************)
\* Python None where a TokenDict is expected (a record with no dict key).
None == [none |-> TRUE]

\* A query parameter that was not sent (FastAPI passes None).
Absent == "<absent>"

\* The empty dict {}.
EmptyDict == [k \in {} |-> 0]

\* bool(x) for x a TokenDict or None: None and {} are falsy.
Truthy(x) == x # None /\ DOMAIN x # {}

\* bool(s) for s an optional string: None and "" are falsy.
TruthyStr(s) == s # Absent /\ s # ""

\* dict(d): a new dict with the items of d.
dict(d) == [k \in DOMAIN d |-> d[k]]

\* The outcome of a call: a returned value or a raised exception.
Return(v) == [ret |-> v]
Raise(e) == [exc |-> e]
Raised(r) == "exc" \in DOMAIN r

\* An exception of class cls; an HTTPError carrying a response status.
Exc(cls) == [cls |-> cls]
HTTPError(status) ==
    [cls |-> "HTTPError", status |-> status,
     msg |-> ToString(status) \o " Error"]

\* ValueError(message).
ValueError(msg) == [cls |-> "ValueError", msg |-> msg]

\* d[key] for a key d lacks raises KeyError(key), whose text is repr(key).
\* The KeyError of reading the keys 'keys' from d one after the other.
KeyError(d, keys) ==
    LET i == CHOOSE i \in 1..Len(keys) :
                 /\ keys[i] \notin DOMAIN d
                 /\ \A j \in 1..(i - 1) : keys[j] \in DOMAIN d
    IN  [cls |-> "KeyError", msg |-> "'" \o keys[i] \o "'"]

\* str(e): the text the exception was made with, "" when it was made
\* without one.
str(e) == IF "msg" \in DOMAIN e THEN e.msg ELSE ""

\* The keys of a token set, in the order the code reads them.
KeyOrder == <<"access_token", "refresh_token", "expires_at">>

Keys == {"access_token", "refresh_token", "expires_at"}
AccessTokens == {"a1", "a2"}
RefreshTokens == {"r1", "r2"}

\* Clock steps: one second, or one TTL.
TickSizes == {1, STATE_TTL_SECONDS}

\* expires_at values around the time t, and the zero of an unset expiry.
ExpiryChoices(t) == {0, t - 1, t, t + 1}

\* The dicts with the given keys, the values drawn from the sets above.
DictsOver(ks, t) ==
    { [k \in ks |-> f[k]] :
        f \in [access_token : AccessTokens,
               refresh_token : RefreshTokens,
               expires_at : ExpiryChoices(t)] }

\* The dicts a caller may hand to the store API: any subset of the keys.
TokenDictInputs(t) == UNION { DictsOver(ks, t) : ks \in SUBSET Keys }

\* Token sets with all three fields, as a provider response carries them.
TokenSets(t) == DictsOver(Keys, t)

(***************************************************************************)
(* tokens.py                                                               *)
(***************************************************************************)
\* load_tokens(): the value returned, given the stored value.
load_tokens(store) == IF Truthy(store) THEN dict(store) ELSE None

\* Mutant: the copy made by save_tokens loses the expiry.
save_tokens_partial(toks) ==
    [k \in DOMAIN toks \ {"expires_at"} |-> toks[k]]
\* save_tokens(tokens): the new stored value.
save_tokens(toks) == dict(toks)

\* Mutant: delete_tokens without its 'global _tokens' assigns a local.
delete_tokens_keep(store) == store
\* delete_tokens(): the new stored value.
delete_tokens(store) == None

\* Mutant: a delete that raises when there is nothing to delete, as the
\* delete of a key store does for a missing entry.
delete_tokens_call_strict(store) ==
    IF Truthy(store)
    THEN [store |-> None, out |-> Return(None)]
    ELSE [store |-> store, out |-> Raise(KeyError(EmptyDict, <<"tokens">>))]
\* A call of delete_tokens(): the store it leaves and its outcome. The body
\* is one assignment under the lock; no statement of it can raise.
delete_tokens_call(store) ==
    [store |-> delete_tokens(store), out |-> Return(None)]

\* is_token_expired(tokens), the clock reading t: tokens["expires_at"] < t,
\* and KeyError when the key is missing.
is_token_expired(toks, t) ==
    IF "expires_at" \in DOMAIN toks THEN Return(toks["expires_at"] < t)
    ELSE Raise(KeyError(toks, <<"expires_at">>))

\* Mutant: the refresh_token of the response is not taken over.
token_response_to_dict_access_only(resp) ==
    IF {"access_token", "expires_at"} \subseteq DOMAIN resp
    THEN Return([k \in {"access_token", "expires_at"} |-> resp[k]])
    ELSE Raise(KeyError(resp, <<"access_token", "expires_at">>))

\* Mutant: the expiry is estimated by the client, a minute short of the
\* provider's value.
token_response_to_dict_estimated(resp) ==
    IF Keys \subseteq DOMAIN resp
    THEN Return([k \in Keys |->
                    IF k = "expires_at" THEN resp[k] - 60 ELSE resp[k]])
    ELSE Raise(KeyError(resp, KeyOrder))

\* token_response_to_dict(token_response).
token_response_to_dict(resp) ==
    IF Keys \subseteq DOMAIN resp
    THEN Return([k \in Keys |-> resp[k]])
    ELSE Raise(KeyError(resp, KeyOrder))

\* has_credentials().
has_credentials(e) == e.client_id # "" /\ e.client_secret # ""

MsgNoClientId == "STRAVA_CLIENT_ID environment variable not set"
MsgNoClientSecret == "STRAVA_CLIENT_SECRET environment variable not set"

\* int(s) for the texts STRAVA_CLIENT_ID holds in the model: the number a
\* decimal literal denotes, ValueError for any other text.
int(s) ==
    IF s = "12345" THEN Return(12345)
    ELSE Raise(ValueError(
             "invalid literal for int() with base 10: '" \o s \o "'"))

\* get_client_id(): ValueError when the variable is unset or empty, and the
\* ValueError of int() when its value is no number.
get_client_id(e) ==
    IF e.client_id = "" THEN Raise(ValueError(MsgNoClientId))
    ELSE int(e.client_id)

\* get_client_secret().
get_client_secret(e) ==
    IF e.client_secret = "" THEN Raise(ValueError(MsgNoClientSecret))
    ELSE Return(e.client_secret)

\* get_client_id() and get_client_secret() both return.
CredentialsReadable(e) ==
    ~Raised(get_client_id(e)) /\ ~Raised(get_client_secret(e))

\* get_client_id() and get_client_secret(), evaluated in this order for the
\* arguments of a provider call: the first ValueError raised.
credentials_error(e) ==
    IF Raised(get_client_id(e)) THEN get_client_id(e).exc
    ELSE get_client_secret(e).exc

(***************************************************************************)
(* The clock                                                               *)
(***************************************************************************)
Advance(d) ==
    /\ ticks < MaxTicks
    /\ now' = now + d
    /\ ticks' = ticks + 1

TickBy(d) ==
    /\ Advance(d)
    /\ UNCHANGED <<_tokens, storeVars, oauthVars, envVars, toolVars,
                   managerVars, callerVars>>

Tick == \E d \in TickSizes : TickBy(d)

TickSecond == TickBy(1)

(***************************************************************************)
(* oauth.py: the CSRF state tracker                                        *)
(***************************************************************************)
\* The state tokens generate_oauth_state has handed out so far.
Issued == DOMAIN vlog

\* The i-th value secrets.token_urlsafe(32) hands out: never one it handed
\* out before.
StateToken(i) == "s" \o ToString(i)
StateTokens == { StateToken(i) : i \in 1..NumStates }

\* del pending[k].
Del(pending, k) == [x \in DOMAIN pending \ {k} |-> pending[x]]

\* Mutant: the cutoff comparison is <= instead of <.
_cleanup_expired_states_le(pending, t) ==
    LET cutoff == t - STATE_TTL_SECONDS
        expired == {k \in DOMAIN pending : pending[k] <= cutoff}
    IN  [k \in DOMAIN pending \ expired |-> pending[k]]
\* _cleanup_expired_states(), time.time() reading t: the new _pending_states.
_cleanup_expired_states(pending, t) ==
    LET cutoff == t - STATE_TTL_SECONDS
        expired == {k \in DOMAIN pending : pending[k] < cutoff}
    IN  [k \in DOMAIN pending \ expired |-> pending[k]]

\* Mutant: generate_oauth_state without the lazy cleanup.
generate_oauth_state_no_cleanup(pending, state, t1, t2) ==
    [k \in DOMAIN pending \cup {state} |->
        IF k = state THEN t2 ELSE pending[k]]
\* generate_oauth_state() returning 'state': the new _pending_states.
\* time.time() reads t1 in the cleanup and t2 at the insertion.
generate_oauth_state(pending, state, t1, t2) ==
    LET cleaned == _cleanup_expired_states(pending, t1)
    IN  [k \in DOMAIN cleaned \cup {state} |->
            IF k = state THEN t2 ELSE cleaned[k]]

\* Mutant: a valid state is not consumed.
validate_oauth_state_keep(pending, state, t1, t2) ==
    IF ~TruthyStr(state) THEN [ret |-> FALSE, pending |-> pending]
    ELSE LET cleaned == _cleanup_expired_states(pending, t1)
         IN  IF state \notin DOMAIN cleaned
             THEN [ret |-> FALSE, pending |-> cleaned]
             ELSE IF t2 - cleaned[state] > STATE_TTL_SECONDS
             THEN [ret |-> FALSE, pending |-> Del(cleaned, state)]
             ELSE [ret |-> TRUE, pending |-> cleaned]
\* Mutant: the purge runs before the test for an empty state.
validate_oauth_state_purge_first(pending, state, t1, t2) ==
    LET cleaned == _cleanup_expired_states(pending, t1)
    IN  IF ~TruthyStr(state) \/ state \notin DOMAIN cleaned
        THEN [ret |-> FALSE, pending |-> cleaned]
        ELSE IF t2 - cleaned[state] > STATE_TTL_SECONDS
        THEN [ret |-> FALSE, pending |-> Del(cleaned, state)]
        ELSE [ret |-> TRUE, pending |-> Del(cleaned, state)]
\* validate_oauth_state(state): the value returned and the new
\* _pending_states. time.time() reads t1 in the cleanup, t2 in the age check.
validate_oauth_state(pending, state, t1, t2) ==
    IF ~TruthyStr(state) THEN [ret |-> FALSE, pending |-> pending]
    ELSE LET cleaned == _cleanup_expired_states(pending, t1)
         IN  IF state \notin DOMAIN cleaned
             THEN [ret |-> FALSE, pending |-> cleaned]
             ELSE IF t2 - cleaned[state] > STATE_TTL_SECONDS
             THEN [ret |-> FALSE, pending |-> Del(cleaned, state)]
             ELSE [ret |-> TRUE, pending |-> Del(cleaned, state)]

(***************************************************************************)
(* oauth.py: the views                                                     *)
(***************************************************************************)
\* The athlete client.get_athlete() returns (its model_dump() in a tool).
AthleteProfile == [firstname |-> "Ada", id |-> 1, lastname |-> "Lovelace"]

NoView == [name |-> ""]
ErrorView(msg) == [name |-> "login_error.html", error |-> msg]
ResultsView(athlete) ==
    [name |-> "login_results.html", athlete |-> athlete, mcp_ready |-> TRUE]
LoginView(url) == [name |-> "login.html", authorize_url |-> url]

MsgNotConfigured ==
    "Strava API credentials not configured. Please set STRAVA_CLIENT_ID and STRAVA_CLIENT_SECRET in your .env file. Get these from https://www.strava.com/settings/api"
MsgCsrf ==
    "Invalid or expired OAuth state. This could be a CSRF attack or your session expired. Please try logging in again."
MsgMissingCode == "Missing authorization code. Please try logging in again."
MsgExchangeFailed == "Failed to exchange authorization code for tokens."
MsgBadCode ==
    "Invalid or expired authorization code. Please try logging in again."
MsgBadClient ==
    "Invalid client credentials. Check your STRAVA_CLIENT_ID and STRAVA_CLIENT_SECRET."
MsgConnect ==
    "Unable to connect to Strava. Please check your internet connection."
MsgTimeout == "Connection to Strava timed out. Please try again."
\* f"An unexpected error occurred: {e}"
MsgUnexpected(e) == "An unexpected error occurred: " \o str(e)

(***************************************************************************)
(* Exceptions of the provider calls (requests.exceptions)                  *)
(***************************************************************************)
\* The classes an exception of class c is an instance of.
Bases(c) ==
    CASE c = "HTTPError" -> {"HTTPError", "RequestException", "Exception"}
      [] c = "ConnectionError" ->
            {"ConnectionError", "RequestException", "Exception"}
      [] c = "ReadTimeout" ->
            {"ReadTimeout", "Timeout", "RequestException", "Exception"}
      [] c = "ConnectTimeout" ->
            {"ConnectTimeout", "ConnectionError", "Timeout",
             "RequestException", "Exception"}
      [] OTHER -> {c, "Exception"}

IsInstance(e, c) == c \in Bases(e.cls)

\* The failures a provider call can end in.
ProviderFailures ==
    {HTTPError(400), HTTPError(401), HTTPError(500), Exc("HTTPError"),
     Exc("ConnectionError"), Exc("ReadTimeout"), Exc("ConnectTimeout"),
     Exc("ValueError"), Exc("Fault")}

\* expires_at values the provider answers with at time t: a set that has
\* reached its expiry already, or one valid for six hours.
ProviderExpiries(t) == {t, t + 21600}

\* The failures of a refresh call: a rejected refresh token, a rejected
\* client, an unreachable provider.
RefreshFailures == {HTTPError(400), HTTPError(401), Exc("ConnectionError")}

\* The token responses the provider can answer with at time t.
ProviderResponses(t) ==
    { [access_token |-> a, refresh_token |-> r, expires_at |-> x] :
        a \in AccessTokens, r \in RefreshTokens, x \in ProviderExpiries(t) }

\* The provider answers the exchange of the code of callback request r with
\* a token set valid for six hours after process start: the set of the
\* first request differs in both tokens from the one of the others.
ExchangeResponses(r) ==
    IF r = 1
    THEN { [access_token |-> "a1", refresh_token |-> "r1",
            expires_at |-> StartTime + 21600] }
    ELSE { [access_token |-> "a2", refresh_token |-> "r2",
            expires_at |-> StartTime + 21600] }

\* Mutant: the status of an HTTPError is not looked at.
exchange_error_view_no_status(e) ==
    IF IsInstance(e, "HTTPError") THEN ErrorView(MsgExchangeFailed)
    ELSE IF IsInstance(e, "ConnectionError") THEN ErrorView(MsgConnect)
    ELSE IF IsInstance(e, "Timeout") THEN ErrorView(MsgTimeout)
    ELSE ErrorView(MsgUnexpected(e))
\* logged_in: the except clauses around exchange_code_for_token.
exchange_error_view(e) ==
    IF IsInstance(e, "HTTPError")
    THEN IF "status" \in DOMAIN e /\ e.status = 400 THEN ErrorView(MsgBadCode)
         ELSE IF "status" \in DOMAIN e /\ e.status = 401
         THEN ErrorView(MsgBadClient)
         ELSE ErrorView(MsgExchangeFailed)
    ELSE IF IsInstance(e, "ConnectionError") THEN ErrorView(MsgConnect)
    ELSE IF IsInstance(e, "Timeout") THEN ErrorView(MsgTimeout)
    ELSE ErrorView(MsgUnexpected(e))

(***************************************************************************)
(* oauth.py: GET / (login) and GET /strava-oauth (logged_in)               *)
(***************************************************************************)
\* 'removed' after a call that left _pending_states as pending2 at time t:
\* a token that left was consumed by a successful validation, or it was
\* older than the TTL ("expired"), or neither ("early").
Removals(pending2, consumed, t) ==
    LET gone == DOMAIN _pending_states \ DOMAIN pending2
    IN  [k \in DOMAIN removed \cup gone |->
            IF k \in DOMAIN removed THEN removed[k]
            ELSE IF k \in consumed THEN "consumed"
            ELSE IF t - _pending_states[k] > STATE_TTL_SECONDS THEN "expired"
            ELSE "early"]

\* The clock may advance by a second between the two time.time() reads of
\* one call.
InCallAdvance(d) ==
    IF d = 0 THEN UNCHANGED <<now, ticks>> ELSE Advance(d)

\* The scope Client().authorization_url asks for when it is called without
\* one.
DefaultScope == <<"read", "activity:read">>

\* Client().authorization_url(**kwargs): the query of the provider URL it
\* builds carries the keyword arguments it is called with, the response
\* type, and the library's default scope when no scope is passed.
authorization_url(kwargs) ==
    [k \in DOMAIN kwargs \cup {"response_type", "scope"} |->
        IF k = "response_type" THEN "code"
        ELSE IF k = "scope" /\ "scope" \notin DOMAIN kwargs THEN DefaultScope
        ELSE kwargs[k]]

\* request.url_for("logged_in") on the listener, and the default
\* redirect_uri of get_auth_url.
RedirectUri == "http://127.0.0.1:5050/strava-oauth"

\* The scopes _build_auth_url asks for.
Scopes == <<"read", "activity:read", "activity:read_all", "profile:read_all">>

\* login(): the authorization URL built for the generated state, or the
\* ValueError of get_client_id().
login_url(e, state) ==
    IF Raised(get_client_id(e)) THEN get_client_id(e)
    ELSE Return(authorization_url([client_id |-> get_client_id(e).ret,
                                   redirect_uri |-> RedirectUri,
                                   approval_prompt |-> "auto",
                                   state |-> state]))

(***************************************************************************)
(* oauth.py: the responses of the listener and the headers middleware      *)
(***************************************************************************)
\* No response was sent yet.
NoSent == [status_code |-> 0, media_type |-> "", headers |-> EmptyDict]

\* templates.TemplateResponse(...): an HTML page, status 200, as every view
\* of login() and logged_in() is returned.
TemplateResponse ==
    [status_code |-> 200, media_type |-> "text/html", headers |-> EmptyDict]

\* An exception leaves a handler: it passes through the middleware, whose
\* call_next raises it, and the server answers 500 with none of the
\* headers set.
InternalServerError ==
    [status_code |-> 500, media_type |-> "text/plain", headers |-> EmptyDict]

\* The media types of the files of the static directory: the style sheet
\* and the button image.
StaticMediaTypes == {"text/css", "image/png"}

\* The answers to GET /static...: a file of the static directory, whole
\* (200) or the part a Range header asks for (206); 304 with no media type
\* for a conditional request whose ETag matches; a plain text 416 for a
\* range outside the file and 400 for a Range header that cannot be read;
\* the redirect of /static to /static/; for a path that names no file, the
\* HTTPException(404) that the application answers as JSON; and, for a path
\* with a NUL byte in it (/static/%00), the 500 of the server: os.stat
\* raises ValueError('embedded null byte'), which the mount does not catch.
StaticResponses ==
    { [status_code |-> c, media_type |-> m, headers |-> EmptyDict] :
        c \in {200, 206}, m \in StaticMediaTypes }
      \cup {[status_code |-> 304, media_type |-> "", headers |-> EmptyDict],
            [status_code |-> 307, media_type |-> "", headers |-> EmptyDict],
            [status_code |-> 400, media_type |-> "text/plain",
             headers |-> EmptyDict],
            [status_code |-> 416, media_type |-> "text/plain",
             headers |-> EmptyDict],
            [status_code |-> 404, media_type |-> "application/json",
             headers |-> EmptyDict],
            InternalServerError}

\* The Content-Security-Policy value, by directive: the sources it lists.
ContentSecurityPolicy ==
    [d \in {"default-src", "img-src", "style-src"} |->
        CASE d = "default-src" -> {"'self'"}
          [] d = "img-src" -> {"'self'", "data:"}
          [] d = "style-src" -> {"'self'", "'unsafe-inline'"}]

\* The headers the middleware sets.
SecurityHeaderValue(h) ==
    CASE h = "X-Content-Type-Options" -> "nosniff"
      [] h = "X-Frame-Options" -> "DENY"
      [] h = "Referrer-Policy" -> "strict-origin-when-cross-origin"
      [] h = "Content-Security-Policy" -> ContentSecurityPolicy

SecurityHeaderNames ==
    {"X-Content-Type-Options", "X-Frame-Options", "Referrer-Policy",
     "Content-Security-Policy"}

\* add_security_headers(request, call_next), resp the response call_next
\* returned: the four headers are set on it, over any value it carried.
add_security_headers(resp) ==
    [resp EXCEPT !.headers =
        [h \in DOMAIN resp.headers \cup SecurityHeaderNames |->
            IF h \in SecurityHeaderNames THEN SecurityHeaderValue(h)
            ELSE resp.headers[h]]]

\* GET /static/<path>: the mount answers and the middleware sets the
\* headers; the 500 for an exception that left the mount is sent by the
\* server, past the middleware, with none of them.
StaticGet ==
    /\ \E resp \in StaticResponses :
          sent' = IF resp = InternalServerError THEN resp
                  ELSE add_security_headers(resp)
    /\ UNCHANGED <<now, ticks, _tokens, storeVars, _pending_states, removed,
                   vlog, issuedAt, req, cpc, response, exchanges, page, envVars, toolVars,
                   managerVars,
                   callerVars>>

\* login(): without credentials the configuration error; otherwise a new
\* state is generated and the authorization URL carrying it is rendered.
\* The state is generated before get_client_id() is read: with a client id
\* that is no number the state stays pending and the ValueError leaves the
\* handler.
Login ==
    /\ IF ~has_credentials(env)
       THEN /\ page' = ErrorView(MsgNotConfigured)
            /\ sent' = add_security_headers(TemplateResponse)
            /\ UNCHANGED <<now, ticks, _pending_states, removed, vlog>>
       ELSE \E d \in {0, 1} :
            LET state == StateToken(Cardinality(Issued) + 1)
                url == login_url(env, state)
            IN
            /\ state \in StateTokens
            /\ InCallAdvance(d)
            /\ _pending_states' =
                   generate_oauth_state(_pending_states, state, now, now')
            /\ removed' = Removals(_pending_states', {}, now')
            /\ vlog' = [k \in Issued \cup {state} |->
                           IF k = state THEN <<>> ELSE vlog[k]]
            /\ IF Raised(url)
               THEN /\ page' = NoView
                    /\ sent' = InternalServerError
               ELSE /\ page' = LoginView(url.ret)
                    /\ sent' = add_security_headers(TemplateResponse)
    /\ UNCHANGED <<_tokens, storeVars, issuedAt, req, cpc, response, exchanges,
                   envVars, toolVars, managerVars,
                   callerVars>>

\* The record kept of one validate_oauth_state(state) call: the age of the
\* state's entry at the last time.time() read t of the call (-1 when the
\* state had no entry when the call began) and the value returned.
Validation(pending, state, t, ret) ==
    [state |-> state,
     age |-> IF state \in DOMAIN pending THEN t - pending[state] ELSE -1,
     ret |-> ret]

\* Whether some entry of pending is older than the TTL at time t.
Stale(pending, t) ==
    \E k \in DOMAIN pending : t - pending[k] > STATE_TTL_SECONDS

\* Mutant: the state check is skipped.
logged_in_no_csrf(pending, e, error, state, code, t1, t2) ==
    IF TruthyStr(error)
    THEN [view |-> ErrorView(error), pending |-> pending,
          validated |-> <<>>, exchange |-> FALSE]
    ELSE LET v == validate_oauth_state(pending, state, t1, t2)
             out == [pending |-> v.pending,
                     validated |-> <<Validation(pending, state, t2, v.ret)>>]
         IN  IF ~TruthyStr(code)
             THEN out @@ [view |-> ErrorView(MsgMissingCode),
                          exchange |-> FALSE]
             ELSE IF ~CredentialsReadable(e)
             THEN out @@ [view |-> ErrorView(MsgUnexpected(credentials_error(e))),
                          exchange |-> FALSE]
             ELSE out @@ [view |-> NoView, exchange |-> TRUE]
\* Mutant: the state is validated before the error parameter is looked at.
logged_in_validate_first(pending, e, error, state, code, t1, t2) ==
    LET v == validate_oauth_state(pending, state, t1, t2)
        out == [pending |-> v.pending,
                validated |-> <<Validation(pending, state, t2, v.ret)>>]
    IN  IF TruthyStr(error)
        THEN out @@ [view |-> ErrorView(error), exchange |-> FALSE]
        ELSE IF ~v.ret
        THEN out @@ [view |-> ErrorView(MsgCsrf), exchange |-> FALSE]
        ELSE IF ~TruthyStr(code)
        THEN out @@ [view |-> ErrorView(MsgMissingCode), exchange |-> FALSE]
        ELSE IF ~CredentialsReadable(e)
        THEN out @@ [view |-> ErrorView(MsgUnexpected(credentials_error(e))),
                     exchange |-> FALSE]
        ELSE out @@ [view |-> NoView, exchange |-> TRUE]
\* Mutant: the test for a missing code is skipped.
logged_in_no_code_check(pending, e, error, state, code, t1, t2) ==
    IF TruthyStr(error)
    THEN [view |-> ErrorView(error), pending |-> pending,
          validated |-> <<>>, exchange |-> FALSE]
    ELSE LET v == validate_oauth_state(pending, state, t1, t2)
             out == [pending |-> v.pending,
                     validated |-> <<Validation(pending, state, t2, v.ret)>>]
         IN  IF ~v.ret
             THEN out @@ [view |-> ErrorView(MsgCsrf), exchange |-> FALSE]
             ELSE IF ~CredentialsReadable(e)
             THEN out @@ [view |-> ErrorView(MsgUnexpected(credentials_error(e))),
                          exchange |-> FALSE]
             ELSE out @@ [view |-> NoView, exchange |-> TRUE]
\* Mutant: the code is looked at before the state is validated, so a
\* request without a code leaves its state pending.
logged_in_code_first(pending, e, error, state, code, t1, t2) ==
    IF TruthyStr(error)
    THEN [view |-> ErrorView(error), pending |-> pending,
          validated |-> <<>>, exchange |-> FALSE]
    ELSE IF ~TruthyStr(code) /\ state \in DOMAIN pending
    THEN [view |-> ErrorView(MsgMissingCode), pending |-> pending,
          validated |-> <<>>, exchange |-> FALSE]
    ELSE LET v == validate_oauth_state(pending, state, t1, t2)
             out == [pending |-> v.pending,
                     validated |-> <<Validation(pending, state, t2, v.ret)>>]
         IN  IF ~v.ret
             THEN out @@ [view |-> ErrorView(MsgCsrf), exchange |-> FALSE]
             ELSE IF ~TruthyStr(code)
             THEN out @@ [view |-> ErrorView(MsgMissingCode),
                          exchange |-> FALSE]
             ELSE IF ~CredentialsReadable(e)
             THEN out @@ [view |-> ErrorView(MsgUnexpected(credentials_error(e))),
                          exchange |-> FALSE]
             ELSE out @@ [view |-> NoView, exchange |-> TRUE]
\* logged_in(request, error, state, code) up to the exchange call: the view
\* returned (NoView when the handler goes on to call the provider), the new
\* _pending_states, the validate_oauth_state call made (if any) and whether
\* exchange_code_for_token is called.
logged_in(pending, e, error, state, code, t1, t2) ==
    IF TruthyStr(error)
    THEN [view |-> ErrorView(error), pending |-> pending,
          validated |-> <<>>, exchange |-> FALSE]
    ELSE LET v == validate_oauth_state(pending, state, t1, t2)
             out == [pending |-> v.pending,
                     validated |-> <<Validation(pending, state, t2, v.ret)>>]
         IN  IF ~v.ret
             THEN out @@ [view |-> ErrorView(MsgCsrf), exchange |-> FALSE]
             ELSE IF ~TruthyStr(code)
             THEN out @@ [view |-> ErrorView(MsgMissingCode),
                          exchange |-> FALSE]
             ELSE IF ~CredentialsReadable(e)
             THEN out @@ [view |-> ErrorView(MsgUnexpected(credentials_error(e))),
                          exchange |-> FALSE]
             ELSE out @@ [view |-> NoView, exchange |-> TRUE]

\* Query parameter values of a callback request. A state token reaches a
\* client only through the authorization URL, so only issued ones occur.
ErrorParams == {Absent, "access_denied"}
StateParams == {Absent, "", "forged"} \cup Issued
CodeParams == {Absent, "c1"}

NoParams == [error |-> Absent, state |-> Absent, code |-> Absent]

\* The answer to request r: its parameters, whether _pending_states held
\* an entry older than the TTL when the request arrived, the view rendered,
\* and the outcome of its exchange_code_for_token call (None without one).
Response(r, params, stale, v) ==
    [req |-> r, error |-> params.error, state |-> params.state,
     code |-> params.code, stale |-> stale, view |-> v, answer |-> None]
NoResponse == Response(0, NoParams, FALSE, NoView)

\* vlog after the validate_oauth_state calls in 'validated': the calls made
\* for issued state tokens are logged, each under its token.
Logged(validated) ==
    [k \in Issued |->
        vlog[k] \o SelectSeq(validated, LAMBDA v : v.state = k)]

\* The state tokens that 'validated' shows consumed.
ConsumedBy(validated) ==
    { validated[i].state : i \in {j \in 1..Len(validated) : validated[j].ret} }

\* Whether logged_in reads time.time() a second time (the age check of
\* validate_oauth_state), after the read of the cleanup at t1.
SecondRead(pending, error, state, t1) ==
    /\ ~TruthyStr(error)
    /\ TruthyStr(state)
    /\ state \in DOMAIN _cleanup_expired_states(pending, t1)

\* The record kept of the exchange_code_for_token call request r makes with
\* 'code'.
ExchangeCall(r, code) == [req |-> r, code |-> code]

\* The answer to a request whose exchange_code_for_token call ended in
\* 'out' (a token response returned or an exception raised).
Answered(resp, out) == [resp EXCEPT !.answer = out]

\* The outcomes of authenticated_client.get_athlete() after the tokens are
\* saved.
AthleteFetches == {Return(AthleteProfile), Raise(Exc("ConnectionError"))}

\* Request r arrives and logged_in runs up to the exchange call: it either
\* answers with a view or goes on to call the provider.
CallbackReceive(r) ==
    /\ cpc[r] = "idle"
    /\ IF r = 1 THEN TRUE ELSE cpc[r - 1] # "idle"
    /\ \E error \in ErrorParams, state \in StateParams, code \in CodeParams,
          d \in {0, 1} :
        /\ d = 1 => SecondRead(_pending_states, error, state, now)
        /\ InCallAdvance(d)
        /\ LET params == [error |-> error, state |-> state, code |-> code]
               h == logged_in(_pending_states, env, error, state, code,
                              now, now')
           IN  /\ _pending_states' = h.pending
               /\ vlog' = Logged(h.validated)
               /\ removed' = Removals(h.pending, ConsumedBy(h.validated), now')
               /\ IF h.exchange
                  THEN /\ req' = [req EXCEPT ![r] = params]
                       /\ cpc' = [cpc EXCEPT ![r] = "exchanging"]
                       /\ exchanges' = Append(exchanges,
                                              ExchangeCall(r, code))
                       /\ UNCHANGED <<response, sent>>
                  ELSE /\ response' = Response(r, params,
                                               Stale(_pending_states, now'),
                                               h.view)
                       /\ sent' = add_security_headers(TemplateResponse)
                       /\ cpc' = [cpc EXCEPT ![r] = "done"]
                       /\ UNCHANGED <<req, exchanges>>
    /\ UNCHANGED <<_tokens, storeVars, issuedAt, page, envVars, toolVars,
                   managerVars, callerVars>>

\* logged_in after exchange_code_for_token returned resp: the token set
\* made of the response is saved. The new store.
logged_in_exchanged(resp) == save_tokens(token_response_to_dict(resp).ret)

\* Mutant: a failing profile fetch is not caught; an error view is
\* rendered.
logged_in_fetched_required(fetch) ==
    IF Raised(fetch) THEN ErrorView(MsgUnexpected(fetch.exc))
    ELSE ResultsView(fetch.ret)
\* logged_in after the save: the athlete is fetched with outcome 'fetch'; an
\* exception of the fetch leaves the athlete None. The view rendered.
logged_in_fetched(fetch) ==
    ResultsView(IF Raised(fetch) THEN None ELSE fetch.ret)

\* exchange_code_for_token fails: the matching error view, nothing stored.
CallbackExchangeFail(r) ==
    /\ cpc[r] = "exchanging"
    /\ \E e \in ProviderFailures :
        response' = Answered(Response(r, req[r], FALSE,
                                      exchange_error_view(e)),
                             Raise(e))
    /\ sent' = add_security_headers(TemplateResponse)
    /\ req' = [req EXCEPT ![r] = NoParams]
    /\ cpc' = [cpc EXCEPT ![r] = "done"]
    /\ UNCHANGED <<now, ticks, _tokens, storeVars, _pending_states, removed,
                   vlog, issuedAt, exchanges, page, envVars, toolVars,
                   managerVars, callerVars>>

\* exchange_code_for_token answers: the token set is saved and the handler
\* calls the provider for the athlete. The request keeps the answer of its
\* exchange.
CallbackExchangeOk(r) ==
    /\ cpc[r] = "exchanging"
    /\ \E resp \in ExchangeResponses(r) :
        /\ _tokens' = logged_in_exchanged(resp)
        /\ req' = [req EXCEPT ![r] = req[r] @@ [answer |-> Return(resp)]]
    /\ cpc' = [cpc EXCEPT ![r] = "fetching"]
    /\ UNCHANGED <<now, ticks, storeVars, _pending_states, removed, vlog,
                   issuedAt, response, exchanges, page, sent, envVars, toolVars,
                   managerVars, callerVars>>

\* get_athlete() returns or raises: the success view is rendered either way
\* (athlete None after an exception). The store is not read again.
CallbackAthlete(r) ==
    /\ cpc[r] = "fetching"
    /\ \E fetch \in AthleteFetches :
        response' = Answered(Response(r, req[r], FALSE,
                                      logged_in_fetched(fetch)),
                             req[r].answer)
    /\ sent' = add_security_headers(TemplateResponse)
    /\ req' = [req EXCEPT ![r] = NoParams]
    /\ cpc' = [cpc EXCEPT ![r] = "done"]
    /\ UNCHANGED <<now, ticks, _tokens, storeVars, _pending_states, removed,
                   vlog, issuedAt, exchanges, page, envVars, toolVars,
                   managerVars, callerVars>>

(***************************************************************************)
(* server.py: get_authenticated_client                                     *)
(***************************************************************************)
\* Mutant: the body runs without 'with _refresh_lock'.
CanAcquire_unguarded(lock) == TRUE
\* threading.Lock: acquire proceeds only while the lock is free.
CanAcquire(lock) == lock = 0

\* Mutant: an exception leaves the function with the lock still held.
LockAfter_kept_on_raise(do, lock) == IF do = "return" THEN 0 ELSE lock
\* Mutant: the lock is given up before the provider call.
LockAfter_released(do, lock) == 0
\* _refresh_lock when the check has decided what to do: the 'with' block
\* spans the provider call and the save, and ends on a return or a raise.
LockAfter(do, lock) == IF do = "refresh" THEN lock ELSE 0

\* Client(access_token=..., refresh_token=..., token_expires=int(...)).
Client(toks) ==
    IF Keys \subseteq DOMAIN toks
    THEN Return([access_token |-> toks["access_token"],
                 refresh_token |-> toks["refresh_token"],
                 token_expires |-> toks["expires_at"]])
    ELSE Raise(KeyError(toks, KeyOrder))

\* The message of the ValueError raised for a store without a usable set.
MsgNotAuthenticated ==
    "Not authenticated. Use get_auth_url() to get the authorization URL, then authenticate() with the code from the callback."
\* Mutant: only 'if not tokens' is checked; a stored set without
\* refresh_token goes on to the expiry check.
get_authenticated_client_unchecked(store, e, t) ==
    LET toks == load_tokens(store)
    IN  IF ~Truthy(toks)
        THEN [do |-> "raise", out |-> Raise(ValueError(MsgNotAuthenticated))]
        ELSE LET expired == is_token_expired(toks, t)
             IN  IF Raised(expired)
                 THEN [do |-> "raise", out |-> expired]
                 ELSE IF ~expired.ret
                 THEN [do |-> "return", out |-> Client(toks)]
                 ELSE IF ~CredentialsReadable(e)
                 THEN [do |-> "raise", out |-> Raise(credentials_error(e))]
                 ELSE IF "refresh_token" \notin DOMAIN toks
                 THEN [do |-> "raise",
                       out |-> Raise(KeyError(toks, <<"refresh_token">>))]
                 ELSE [do |-> "refresh",
                       refresh_token |-> toks["refresh_token"]]

\* Mutant: every call refreshes, whether or not the stored set is expired.
get_authenticated_client_eager(store, e, t) ==
    LET toks == load_tokens(store)
    IN  IF ~Truthy(toks) \/ "refresh_token" \notin DOMAIN toks
        THEN [do |-> "raise", out |-> Raise(ValueError(MsgNotAuthenticated))]
        ELSE IF ~CredentialsReadable(e)
        THEN [do |-> "raise", out |-> Raise(credentials_error(e))]
        ELSE [do |-> "refresh", refresh_token |-> toks["refresh_token"]]

\* Mutant: the expiry is evaluated against the clock read at process start,
\* as when a 'not expired' finding is kept from an earlier call.
get_authenticated_client_kept(store, e, t) ==
    LET toks == load_tokens(store)
    IN  IF ~Truthy(toks) \/ "refresh_token" \notin DOMAIN toks
        THEN [do |-> "raise", out |-> Raise(ValueError(MsgNotAuthenticated))]
        ELSE LET expired == is_token_expired(toks, StartTime)
             IN  IF Raised(expired)
                 THEN [do |-> "raise", out |-> expired]
                 ELSE IF ~expired.ret
                 THEN [do |-> "return", out |-> Client(toks)]
                 ELSE IF ~CredentialsReadable(e)
                 THEN [do |-> "raise", out |-> Raise(credentials_error(e))]
                 ELSE [do |-> "refresh",
                       refresh_token |-> toks["refresh_token"]]

\* get_authenticated_client() from load_tokens() up to the provider call,
\* the clock reading t: it raises, returns a client for the stored set, or
\* calls refresh_access_token with the stored refresh_token.
get_authenticated_client(store, e, t) ==
    LET toks == load_tokens(store)
    IN  IF ~Truthy(toks) \/ "refresh_token" \notin DOMAIN toks
        THEN [do |-> "raise", out |-> Raise(ValueError(MsgNotAuthenticated))]
        ELSE LET expired == is_token_expired(toks, t)
             IN  IF Raised(expired)
                 THEN [do |-> "raise", out |-> expired]
                 ELSE IF ~expired.ret
                 THEN [do |-> "return", out |-> Client(toks)]
                 ELSE IF ~CredentialsReadable(e)
                 THEN [do |-> "raise", out |-> Raise(credentials_error(e))]
                 ELSE [do |-> "refresh",
                       refresh_token |-> toks["refresh_token"]]

\* A provider refresh call: who made it, with which refresh_token, and its
\* outcome once it has returned.
InFlight == [pending |-> TRUE]
RefreshCall(t, refresh_token) ==
    [caller |-> t, refresh_token |-> refresh_token, out |-> InFlight]

\* 'refreshes' with the call of caller t completed by 'out'.
Completed(t, out) ==
    [i \in 1..Len(refreshes) |->
        IF refreshes[i].caller = t /\ refreshes[i].out = InFlight
        THEN [refreshes[i] EXCEPT !.out = out]
        ELSE refreshes[i]]

\* The stored set is one get_authenticated_client would refresh now.
StoredExpired ==
    /\ Truthy(_tokens)
    /\ "refresh_token" \in DOMAIN _tokens
    /\ is_token_expired(_tokens, now) = Return(TRUE)

\* Caller t calls get_authenticated_client and waits for _refresh_lock.
GacCall(t) ==
    /\ pc[t] = "idle"
    /\ pc' = [pc EXCEPT ![t] = "waiting"]
    /\ calledExpired' = [calledExpired EXCEPT ![t] = StoredExpired]
    /\ UNCHANGED <<now, ticks, _tokens, storeVars, oauthVars, envVars, toolVars, managerVars,
                   _refresh_lock, result, refreshes>>

\* Caller t enters 'with _refresh_lock'.
GacAcquire(t) ==
    /\ pc[t] = "waiting"
    /\ CanAcquire(_refresh_lock)
    /\ _refresh_lock' = t
    /\ pc' = [pc EXCEPT ![t] = "locked"]
    /\ UNCHANGED <<now, ticks, _tokens, storeVars, oauthVars, envVars, toolVars,
                   managerVars, result,
                   calledExpired, refreshes>>

\* Caller t loads the tokens and checks them: it leaves the lock with an
\* exception or a client, or it issues the provider refresh call.
GacLoad(t) ==
    /\ pc[t] = "locked"
    /\ LET g == get_authenticated_client(_tokens, env, now)
       IN  /\ _refresh_lock' = LockAfter(g.do, _refresh_lock)
           /\ IF g.do = "refresh"
              THEN /\ refreshes' = Append(refreshes,
                                          RefreshCall(t, g.refresh_token))
                   /\ pc' = [pc EXCEPT ![t] = "refreshing"]
                   /\ UNCHANGED result
              ELSE /\ result' = [result EXCEPT ![t] = g.out]
                   /\ pc' = [pc EXCEPT ![t] = "done"]
                   /\ UNCHANGED refreshes
    /\ UNCHANGED <<now, ticks, _tokens, storeVars, oauthVars, envVars, toolVars, managerVars,
                   calledExpired>>

\* refresh_access_token answers: the response is saved, the lock released
\* and a client for the new set returned.
GacRefreshOk(t) ==
    /\ pc[t] = "refreshing"
    /\ \E resp \in ProviderResponses(now) :
        LET toks == token_response_to_dict(resp).ret
        IN  /\ _tokens' = save_tokens(toks)
            /\ result' = [result EXCEPT ![t] = Client(toks)]
            /\ refreshes' = Completed(t, Return(resp))
    /\ _refresh_lock' = 0
    /\ pc' = [pc EXCEPT ![t] = "done"]
    /\ UNCHANGED <<now, ticks, storeVars, oauthVars, envVars, toolVars,
                   managerVars, calledExpired>>

\* refresh_access_token fails: the exception leaves the 'with' block, which
\* releases the lock; nothing is saved.
GacRefreshFail(t) ==
    /\ pc[t] = "refreshing"
    /\ \E e \in RefreshFailures :
        /\ result' = [result EXCEPT ![t] = Raise(e)]
        /\ refreshes' = Completed(t, Raise(e))
    /\ _refresh_lock' = 0
    /\ pc' = [pc EXCEPT ![t] = "done"]
    /\ UNCHANGED <<now, ticks, _tokens, storeVars, oauthVars, envVars, toolVars, managerVars,
                   calledExpired>>

(***************************************************************************)
(* server.py: handle_strava_errors and the data tools                      *)
(***************************************************************************)
\* bool(e.response): a requests Response is truthy only when its status is
\* below 400; an HTTPError without response has response None.
ResponseTruthy(e) == "status" \in DOMAIN e /\ e.status < 400

ActionCheckStatus == "Check authentication status with get_auth_status()"
ActionReauthenticate == "Re-authenticate using get_auth_url()"

\* The dict returned for an HTTPError.
http_error_result(e) ==
    IF "status" \in DOMAIN e /\ e.status = 429
    THEN [error |-> "rate_limited",
          message |-> "Strava API rate limit exceeded",
          action |-> "Wait 15 minutes before retrying",
          retry_after_seconds |-> 900]
    ELSE IF "status" \in DOMAIN e /\ e.status = 401
    THEN [error |-> "unauthorized",
          message |-> "Access token invalid or revoked",
          action |-> ActionReauthenticate]
    ELSE IF "status" \in DOMAIN e /\ e.status = 404
    THEN [error |-> "not_found", message |-> "Resource not found",
          action |-> "Verify the ID exists and you have access"]
    ELSE IF "status" \in DOMAIN e /\ e.status = 403
    THEN [error |-> "forbidden",
          message |-> "Access denied to this resource",
          action |-> "Check if you have permission to access this data"]
    ELSE [error |-> "api_error", message |-> str(e),
          status_code |-> IF ResponseTruthy(e) THEN Return(e.status)
                          ELSE Return(None)]

\* Mutant: the wrapper has no 'except ValueError' clause.
handle_strava_errors_no_value_error(out) ==
    IF ~Raised(out) THEN out.ret
    ELSE IF IsInstance(out.exc, "HTTPError") THEN http_error_result(out.exc)
    ELSE [error |-> "unexpected_error", message |-> str(out.exc),
          type |-> out.exc.cls]

\* Mutant: a ValueError that says "Not authenticated" gets a kind of its
\* own.
handle_strava_errors_auth_kind(out) ==
    IF ~Raised(out) THEN out.ret
    ELSE IF IsInstance(out.exc, "ValueError")
    THEN [error |-> IF str(out.exc) = MsgNotAuthenticated
                    THEN "authentication_required" ELSE "validation_error",
          message |-> str(out.exc), action |-> ActionCheckStatus]
    ELSE http_error_result(out.exc)

\* Mutant: the wrapper has no 'except Timeout' clause.
handle_strava_errors_no_timeout(out) ==
    IF ~Raised(out) THEN out.ret
    ELSE IF IsInstance(out.exc, "ValueError")
    THEN [error |-> "validation_error", message |-> str(out.exc),
          action |-> ActionCheckStatus]
    ELSE IF IsInstance(out.exc, "HTTPError") THEN http_error_result(out.exc)
    ELSE IF IsInstance(out.exc, "ConnectionError")
    THEN [error |-> "network_error",
          message |-> "Unable to connect to Strava API",
          action |-> "Check your internet connection"]
    ELSE [error |-> "unexpected_error", message |-> str(out.exc),
          type |-> out.exc.cls]

\* The wrapper of handle_strava_errors around a tool body with outcome
\* 'out': the value the tool returns.
handle_strava_errors(out) ==
    IF ~Raised(out) THEN out.ret
    ELSE IF IsInstance(out.exc, "ValueError")
    THEN [error |-> "validation_error", message |-> str(out.exc),
          action |-> ActionCheckStatus]
    ELSE IF IsInstance(out.exc, "HTTPError") THEN http_error_result(out.exc)
    ELSE IF IsInstance(out.exc, "ConnectionError")
    THEN [error |-> "network_error",
          message |-> "Unable to connect to Strava API",
          action |-> "Check your internet connection"]
    ELSE IF IsInstance(out.exc, "Timeout")
    THEN [error |-> "timeout", message |-> "Strava API request timed out",
          action |-> "Try again in a moment"]
    ELSE [error |-> "unexpected_error", message |-> str(out.exc),
          type |-> out.exc.cls]

\* The outcomes of the Strava API call a data tool makes with its client.
ApiOutcomes ==
    {Return(AthleteProfile), Raise(HTTPError(401)), Raise(HTTPError(429))}

\* A tool result that is an error dict.
IsError(res) == "error" \in DOMAIN res

(***************************************************************************)
(* tokens.py: the store API called from several threads                    *)
(***************************************************************************)
\* Mutant: the store functions run without 'with _lock'.
StoreLockFree_unguarded(lock) == TRUE
\* 'with _lock' is entered only while no thread holds _lock.
StoreLockFree(lock) == lock = 0

\* A thread between calls.
IdleThread == [pc |-> "idle", op |-> "", arg |-> None]

\* The token sets the threads save: they differ in every field.
SaveArgs ==
    { [access_token |-> "a1", refresh_token |-> "r1",
       expires_at |-> StartTime - 1],
      [access_token |-> "a2", refresh_token |-> "r2",
       expires_at |-> StartTime + 1] }

\* The calls a thread can make: <<function, argument>>.
StoreCalls ==
    {<<"load_tokens", None>>, <<"delete_tokens", None>>}
        \cup {<<"save_tokens", T>> : T \in SaveArgs}

\* Events of the history: a call with its argument, a return with its
\* outcome.
CallEvent(t, op, arg) == [t |-> t, e |-> "call", op |-> op, val |-> arg]
RetEvent(t, op, out) == [t |-> t, e |-> "ret", op |-> op, val |-> out]

\* Thread t back between calls.
Returned(t) == [th EXCEPT ![t] = IdleThread]

\* The calls of a history, each named by the position of its call event.
CallsOf(h) == {i \in 1..Len(h) : h[i].e = "call"}

\* dict(_tokens) on the value read: TypeError when it is None.
dict_call(store) ==
    IF store = None THEN Raise(Exc("TypeError")) ELSE Return(dict(store))

\* Thread t calls a store function and reaches its 'with _lock'.
ThreadCall(t) ==
    /\ th[t].pc = "idle"
    /\ Cardinality(CallsOf(hist)) < MaxCalls
    /\ \E c \in StoreCalls :
        /\ th' = [th EXCEPT ![t] = [pc |-> "called", op |-> c[1],
                                    arg |-> c[2]]]
        /\ hist' = Append(hist, CallEvent(t, c[1], c[2]))
    /\ UNCHANGED <<now, ticks, _tokens, last, saved, _lock, objectVars,
                   oauthVars, envVars, toolVars, managerVars, callerVars>>

\* save_tokens: under the lock, _tokens = dict(tokens); then it returns.
ThreadSave(t) ==
    /\ th[t].pc = "called" /\ th[t].op = "save_tokens"
    /\ StoreLockFree(_lock)
    /\ _tokens' = save_tokens(th[t].arg)
    /\ hist' = Append(hist, RetEvent(t, "save_tokens", Return(None)))
    /\ th' = Returned(t)
    /\ UNCHANGED <<now, ticks, last, saved, _lock, objectVars, oauthVars,
                   envVars, toolVars, managerVars, callerVars>>

\* delete_tokens: under the lock, _tokens = None; then it returns.
ThreadDelete(t) ==
    /\ th[t].pc = "called" /\ th[t].op = "delete_tokens"
    /\ StoreLockFree(_lock)
    /\ _tokens' = delete_tokens_call(_tokens).store
    /\ hist' = Append(hist, RetEvent(t, "delete_tokens",
                                     delete_tokens_call(_tokens).out))
    /\ th' = Returned(t)
    /\ UNCHANGED <<now, ticks, last, saved, _lock, objectVars, oauthVars,
                   envVars, toolVars, managerVars, callerVars>>

\* load_tokens, first read of _tokens: under the lock, 'if _tokens'; a falsy
\* store returns None at once.
ThreadLoadTest(t) ==
    /\ th[t].pc = "called" /\ th[t].op = "load_tokens"
    /\ StoreLockFree(_lock)
    /\ IF Truthy(_tokens)
       THEN /\ _lock' = t
            /\ th' = [th EXCEPT ![t].pc = "copy"]
            /\ UNCHANGED hist
       ELSE /\ hist' = Append(hist, RetEvent(t, "load_tokens", Return(None)))
            /\ th' = Returned(t)
            /\ UNCHANGED _lock
    /\ UNCHANGED <<now, ticks, _tokens, last, saved, objectVars, oauthVars,
                   envVars, toolVars, managerVars, callerVars>>

\* load_tokens, second read of _tokens: dict(_tokens); the lock is released
\* and the copy returned.
ThreadLoadCopy(t) ==
    /\ th[t].pc = "copy"
    /\ hist' = Append(hist, RetEvent(t, "load_tokens", dict_call(_tokens)))
    /\ th' = Returned(t)
    /\ _lock' = 0
    /\ UNCHANGED <<now, ticks, _tokens, last, saved, objectVars, oauthVars,
                   envVars, toolVars, managerVars, callerVars>>

(***************************************************************************)
(* SpecStore: the store API called with bounded inputs                     *)
(***************************************************************************)
\* The record kept of one store API call: its argument (the one of
\* save_tokens is kept in 'saved'), the clock when it was made, its outcome.
Call(op, arg, out) == [op |-> op, arg |-> arg, at |-> now, out |-> out]

\* The record kept of the last write: which call made it, the value handed
\* to save_tokens (None for a delete), whether a set was stored before, and
\* which call made the write before it.
Write(by, val) ==
    [by |-> by, val |-> val, over |-> Truthy(_tokens), after |-> saved.by]

StoreSave ==
    \E T \in TokenDictInputs(now) :
        /\ _tokens' = save_tokens(T)
        /\ last' = Call("save_tokens", None, Return(None))
        /\ saved' = Write("save_tokens", T)
        /\ UNCHANGED <<now, ticks, threadVars, objectVars,
                       oauthVars, envVars, toolVars, managerVars, callerVars>>

StoreLoad ==
    /\ last' = Call("load_tokens", None, Return(load_tokens(_tokens)))
    /\ UNCHANGED <<now, ticks, _tokens, saved, threadVars, objectVars,
                       oauthVars, envVars, toolVars, managerVars, callerVars>>

StoreDelete ==
    /\ _tokens' = delete_tokens_call(_tokens).store
    /\ last' = Call("delete_tokens", None, delete_tokens_call(_tokens).out)
    /\ saved' = Write("delete_tokens", None)
    /\ UNCHANGED <<now, ticks, threadVars, objectVars,
                       oauthVars, envVars, toolVars, managerVars, callerVars>>

StoreIsExpired ==
    \E T \in TokenDictInputs(now) :
        /\ last' = Call("is_token_expired", T, is_token_expired(T, now))
        /\ UNCHANGED <<now, ticks, _tokens, saved, threadVars, objectVars,
                       oauthVars, envVars, toolVars, managerVars, callerVars>>

(***************************************************************************)
(* server.py: the lifecycle tools                                          *)
(***************************************************************************)
\* datetime.fromtimestamp(x).isoformat(): the timestamp as ISO text.
isoformat(x) == [iso |-> x]

\* Mutant: the status tool answers from an expiry check made earlier and
\* reports every stored set as not expired.
get_auth_status_fresh(store, t) ==
    LET toks == load_tokens(store)
    IN  IF ~Truthy(toks)
        THEN Return([authenticated |-> FALSE,
                     message |-> "No tokens found. Use get_auth_url() to start authentication."])
        ELSE Return([authenticated |-> TRUE,
                     token_expires_at |-> None,
                     is_expired |-> FALSE,
                     message |-> "Authenticated and ready."])
\* get_auth_status(), the clock reading t. The tool is not wrapped by
\* handle_strava_errors: an exception of is_token_expired leaves it.
get_auth_status(store, t) ==
    LET toks == load_tokens(store)
    IN  IF ~Truthy(toks)
        THEN Return([authenticated |-> FALSE,
                     message |-> "No tokens found. Use get_auth_url() to start authentication."])
        ELSE LET expires_at == IF "expires_at" \in DOMAIN toks
                               THEN toks["expires_at"] ELSE 0
                 is_expired == is_token_expired(toks, t)
             IN  IF Raised(is_expired) THEN is_expired
                 ELSE Return([authenticated |-> TRUE,
                              token_expires_at |->
                                  IF expires_at # 0 THEN isoformat(expires_at)
                                  ELSE None,
                              is_expired |-> is_expired.ret,
                              message |->
                                  IF is_expired.ret
                                  THEN "Token expired, will auto-refresh on next API call."
                                  ELSE "Authenticated and ready."])

\* _build_auth_url(redirect_uri): the ValueError of get_client_id(), or the
\* URL, which asks for the scopes; no state is generated or passed.
_build_auth_url(e, redirect_uri) ==
    IF Raised(get_client_id(e)) THEN get_client_id(e)
    ELSE Return(authorization_url([client_id |-> get_client_id(e).ret,
                                   redirect_uri |-> redirect_uri,
                                   approval_prompt |-> "auto",
                                   scope |-> Scopes]))

Instructions ==
    "1. Open the auth_url in your browser\n"
        \o "2. Authorize the application on Strava\n"
        \o "3. Tokens will be saved automatically - no code copying needed!\n"
        \o "4. Return here and use get_activities() or other tools"

\* get_auth_url(): the tool is not wrapped by handle_strava_errors, an
\* exception of _build_auth_url leaves it.
get_auth_url(e) ==
    LET url == _build_auth_url(e, RedirectUri)
    IN  IF Raised(url) THEN url
        ELSE Return([auth_url |-> url.ret,
                     oauth_server |-> "http://127.0.0.1:5050",
                     instructions |-> Instructions])

\* The codes authenticate is called with; the first two are empty after
\* strip().
Codes == {"", " ", "c1"}
BlankCodes == {"", " "}

\* The provider calls of _exchange_and_get_athlete, as they are recorded.
ExchangeCodeCall(code, out) ==
    [op |-> "exchange_code_for_token", code |-> code, out |-> out]
AthleteCall(access_token, out) ==
    [op |-> "get_athlete", access_token |-> access_token, out |-> out]

\* Mutant: only the empty code is refused; a code of blanks is handed to
\* the provider.
authenticate_no_strip(e, code) ==
    IF code = ""
    THEN [do |-> "return",
          res |-> [error |-> "validation_error",
                   message |-> "Authorization code cannot be empty",
                   action |-> "Get a new authorization code from get_auth_url()"]]
    ELSE IF ~CredentialsReadable(e)
    THEN [do |-> "return",
          res |-> handle_strava_errors(Raise(credentials_error(e)))]
    ELSE [do |-> "exchange", code |-> code]
\* authenticate(code), wrapped by handle_strava_errors, up to the provider
\* call of _exchange_and_get_athlete: the dict it returns for a code that
\* is empty after strip() and for the ValueError of get_client_id() or
\* get_client_secret(), or the exchange call it makes.
authenticate(e, code) ==
    IF code \in BlankCodes
    THEN [do |-> "return",
          res |-> [error |-> "validation_error",
                   message |-> "Authorization code cannot be empty",
                   action |-> "Get a new authorization code from get_auth_url()"]]
    ELSE IF ~CredentialsReadable(e)
    THEN [do |-> "return",
          res |-> handle_strava_errors(Raise(credentials_error(e)))]
    ELSE [do |-> "exchange", code |-> code]

\* Mutant: the token set is not saved before the profile is fetched.
_exchange_and_get_athlete_fetch_first(store, ex) ==
    IF Raised(ex) THEN [do |-> "raise", out |-> ex, store |-> store]
    ELSE IF Raised(token_response_to_dict(ex.ret))
    THEN [do |-> "raise", out |-> token_response_to_dict(ex.ret),
          store |-> store]
    ELSE [do |-> "fetch", store |-> store,
          access_token |-> token_response_to_dict(ex.ret).ret["access_token"]]
\* _exchange_and_get_athlete(code) from the return of
\* exchange_code_for_token, with outcome ex, up to the get_athlete() call:
\* an exception leaves it; a token response is converted and saved, and
\* the profile is asked for with the new access token.
_exchange_and_get_athlete(store, ex) ==
    IF Raised(ex) THEN [do |-> "raise", out |-> ex, store |-> store]
    ELSE IF Raised(token_response_to_dict(ex.ret))
    THEN [do |-> "raise", out |-> token_response_to_dict(ex.ret),
          store |-> store]
    ELSE [do |-> "fetch",
          store |-> save_tokens(token_response_to_dict(ex.ret).ret),
          access_token |-> token_response_to_dict(ex.ret).ret["access_token"]]

\* authenticate(code) once get_athlete() ended in ath, the exchange having
\* returned resp: the dict the wrapped tool returns.
authenticate_returned(resp, ath) ==
    IF Raised(ath) THEN handle_strava_errors(ath)
    ELSE [success |-> TRUE,
          message |-> "Successfully authenticated as " \o ath.ret.firstname
                          \o " " \o ath.ret.lastname,
          athlete_id |-> ath.ret.id,
          expires_at |->
              isoformat(token_response_to_dict(resp).ret["expires_at"])]

\* logout(): delete_tokens() and a success dict.
logout(store) ==
    [out |-> IF Raised(delete_tokens_call(store).out)
             THEN delete_tokens_call(store).out
             ELSE Return([success |-> TRUE,
                          message |-> "Logged out successfully. Tokens cleared."]),
     store |-> delete_tokens_call(store).store]

(***************************************************************************)
(* server.py: OAuthServerManager, the thread of the OAuth listener         *)
(***************************************************************************)
\* How an attempt to create the listener ends: the thread runs; the import
\* of the app or uvicorn.Config / uvicorn.Server raises; Thread.start()
\* raises.
StartOutcomes == {"started", "create fails", "thread start fails"}

\* self._thread is not None and self._thread.is_alive().
is_alive(thread, ls) == thread # 0 /\ ls[thread] = "alive"

\* Mutant: start without the test for a running thread.
start_unchecked(thread, ls, outcome) ==
    IF outcome = "create fails"
    THEN [ret |-> FALSE, _thread |-> thread, listeners |-> ls]
    ELSE IF outcome = "thread start fails"
    THEN [ret |-> FALSE, _thread |-> Len(ls) + 1,
          listeners |-> Append(ls, "unstarted")]
    ELSE [ret |-> TRUE, _thread |-> Len(ls) + 1,
          listeners |-> Append(ls, "alive")]

\* OAuthServerManager.start(), the attempt to create the listener ending in
\* outcome: the value returned, self._thread and the threads there are.
start(thread, ls, outcome) ==
    IF is_alive(thread, ls)
    THEN [ret |-> TRUE, _thread |-> thread, listeners |-> ls]
    ELSE IF outcome = "create fails"
    THEN [ret |-> FALSE, _thread |-> thread, listeners |-> ls]
    ELSE IF outcome = "thread start fails"
    THEN [ret |-> FALSE, _thread |-> Len(ls) + 1,
          listeners |-> Append(ls, "unstarted")]
    ELSE [ret |-> TRUE, _thread |-> Len(ls) + 1,
          listeners |-> Append(ls, "alive")]

\* start_oauth_server() is called and ends in outcome; at most MaxStarts
\* threads are created.
start_oauth_server(outcome) ==
    LET m == start(_thread, listeners, outcome)
    IN  /\ Len(m.listeners) <= MaxStarts
        /\ _thread' = m._thread
        /\ listeners' = m.listeners

\* The value that call returns.
Started(outcome) == start(_thread, listeners, outcome).ret

\* The listener was started by main() and runs.
ListenerRunning == _thread = 1 /\ listeners = <<"alive">>

LifecycleTools == {"get_auth_status", "get_auth_url", "authenticate", "logout"}

ToolGetAuthStatus ==
    /\ last' = Call("get_auth_status", None, get_auth_status(_tokens, now))
    /\ UNCHANGED <<now, ticks, _tokens, saved, threadVars, objectVars,
                   oauthVars, envVars, toolVars, managerVars, callerVars>>

ToolGetAuthUrl ==
    /\ \E outcome \in StartOutcomes :
        /\ start_oauth_server(outcome)
        /\ last' = Call("get_auth_url", None, get_auth_url(env))
                        @@ [start |-> Started(outcome)]
    /\ UNCHANGED <<now, ticks, _tokens, saved, threadVars, objectVars,
                   oauthVars, envVars, toolVars, callerVars>>

\* No authenticate call is in progress.
NoAuth == [pc |-> "idle"]

\* authenticate(code) is called, no other authenticate call being in
\* progress: it returns at once, or its worker thread calls the provider.
AuthenticateCall(code) ==
    /\ auth = NoAuth
    /\ LET a == authenticate(env, code)
       IN  IF a.do = "return"
           THEN /\ last' = Call("authenticate", [code |-> code],
                                Return(a.res)) @@ [calls |-> <<>>]
                /\ auth' = auth
           ELSE /\ auth' = [pc |-> "exchanging", code |-> code]
                /\ last' = last
    /\ UNCHANGED <<now, ticks, _tokens, saved, threadVars, objectVars,
                   oauthVars, envVars, managerVars, running, callerVars>>

\* exchange_code_for_token ends in ex: the call returns the error dict of
\* an exception; a token response is saved and get_athlete() is called.
AuthenticateExchanged(ex) ==
    /\ auth.pc = "exchanging"
    /\ LET x == _exchange_and_get_athlete(_tokens, ex)
       IN  /\ _tokens' = x.store
           /\ IF x.do = "raise"
              THEN /\ last' = Call("authenticate", [code |-> auth.code],
                                   Return(handle_strava_errors(x.out)))
                              @@ [calls |-> <<ExchangeCodeCall(auth.code,
                                                               ex)>>]
                   /\ auth' = NoAuth
              ELSE /\ auth' = [pc |-> "fetching", code |-> auth.code,
                               resp |-> ex.ret,
                               access_token |-> x.access_token]
                   /\ last' = last
    /\ UNCHANGED <<now, ticks, saved, threadVars, objectVars, oauthVars,
                   envVars, managerVars, running, callerVars>>

\* get_athlete() ends in ath and authenticate returns; the store is not
\* read again.
AuthenticateFetched(ath) ==
    /\ auth.pc = "fetching"
    /\ last' = Call("authenticate", [code |-> auth.code],
                    Return(authenticate_returned(auth.resp, ath)))
               @@ [calls |-> <<ExchangeCodeCall(auth.code, Return(auth.resp)),
                               AthleteCall(auth.access_token, ath)>>]
    /\ auth' = NoAuth
    /\ UNCHANGED <<now, ticks, _tokens, saved, threadVars, objectVars,
                   oauthVars, envVars, managerVars, running, callerVars>>

\* The authenticate tool with every code, and the provider answering its
\* calls in every way.
ToolAuthenticate == \E code \in Codes : AuthenticateCall(code)

ToolAuthenticateExchanged ==
    \E ex \in {Return(r) : r \in ExchangeResponses(1) \cup ExchangeResponses(2)}
                \cup {Raise(f) : f \in ProviderFailures} :
        AuthenticateExchanged(ex)

ToolAuthenticateFetched ==
    \E ath \in {Return(AthleteProfile), Raise(HTTPError(401))} :
        AuthenticateFetched(ath)

ToolLogout ==
    /\ last' = Call("logout", None, logout(_tokens).out)
    /\ _tokens' = logout(_tokens).store
    /\ UNCHANGED <<now, ticks, saved, threadVars, objectVars, oauthVars,
                   envVars, toolVars, managerVars, callerVars>>

\* The exceptions the body of a data tool can raise besides those of
\* get_authenticated_client: the failures of the provider call.
ToolFailures ==
    ProviderFailures
        \cup {HTTPError(429), HTTPError(404), HTTPError(403)}

(***************************************************************************)
(* server.py: the data tools. A tool is a coroutine: it validates its      *)
(* input, awaits a helper that runs in a worker thread, and returns. The   *)
(* body of a tool is an operator of its keyword arguments and of aw, the   *)
(* outcomes of the awaits it has completed so far; it tells what the body  *)
(* does next: await a helper, or end by returning or raising.              *)
(***************************************************************************)
\* A keyword argument of a tool call, or the parameter's default.
Kw(kwargs, name, default) ==
    IF name \in DOMAIN kwargs THEN kwargs[name] ELSE default

ValidationError(msg) == [error |-> "validation_error", message |-> msg]

\* min(limit, 200).
Min(a, b) == IF a < b THEN a ELSE b

Await(helper, args) == [do |-> "await", helper |-> helper, args |-> args]
End(out) == [do |-> "end", out |-> out]
Reject(msg) == End(Return(ValidationError(msg)))

\* 'x = await asyncio.to_thread(helper, *args)' followed by
\* 'return Result(x)': the await, and after it the exception of the helper
\* or the value returned.
Awaited(aw, helper, args, Result(_)) ==
    IF aw = <<>> THEN Await(helper, args)
    ELSE IF Raised(aw[1]) THEN End(aw[1])
    ELSE End(Return(Result(aw[1].ret)))

\* {"count": len(items), key: items}.
Listed(key, items) == (key :> items) @@ [count |-> Len(items)]

\* A _fetch_* helper: 'client = get_authenticated_client()', with outcome
\* gac, and then the provider calls made with that client, with outcome
\* api. The value is the one the helper returns.
_fetch(gac, api) == IF Raised(gac) THEN gac ELSE api

\* The get_athlete tool with the outcomes of its helper: the wrapper turns
\* an exception of either into a dict.
get_athlete(gac, api) == handle_strava_errors(_fetch(gac, api))

\* datetime.fromisoformat on the date strings of the model.
IsoDates == {"2025-12-01"}
fromisoformat(s) ==
    IF s \in IsoDates THEN Return([date |-> s])
    ELSE Raise(ValueError("Invalid isoformat string: '" \o s \o "'"))

InvalidDate(s) ==
    Reject("Invalid date format '" \o s \o "'. Use ISO format: YYYY-MM-DD")

\* get_activities(after=None, before=None, limit=10).
get_activities(kwargs, aw) ==
    LET limit == Kw(kwargs, "limit", 10)
        after == Kw(kwargs, "after", "")
        before == Kw(kwargs, "before", "")
    IN  IF limit < 1 THEN Reject("limit must be at least 1")
        ELSE IF after # "" /\ Raised(fromisoformat(after))
        THEN InvalidDate(after)
        ELSE IF before # "" /\ Raised(fromisoformat(before))
        THEN InvalidDate(before)
        ELSE Awaited(aw, "_fetch_activities",
                     [limit |-> Min(limit, 200)], LAMBDA v : v)

\* get_athlete_stats(athlete_id=None).
get_athlete_stats(kwargs, aw) ==
    IF "athlete_id" \in DOMAIN kwargs /\ kwargs.athlete_id < 1
    THEN Reject("athlete_id must be a positive integer")
    ELSE Awaited(aw, "_fetch_athlete_stats", kwargs, LAMBDA v : v)

\* get_activity_details(activity_id).
get_activity_details(kwargs, aw) ==
    IF kwargs.activity_id < 1
    THEN Reject("activity_id must be a positive integer")
    ELSE Awaited(aw, "_fetch_activity_details", kwargs, LAMBDA v : v)

\* Mutant: the segment is fetched before segment_id is looked at.
get_segment_fetch_first(kwargs, aw) ==
    IF aw = <<>> THEN Await("_fetch_segment", kwargs)
    ELSE IF kwargs.segment_id < 1
    THEN Reject("segment_id must be a positive integer")
    ELSE End(aw[1])
\* get_segment(segment_id).
get_segment(kwargs, aw) ==
    IF kwargs.segment_id < 1
    THEN Reject("segment_id must be a positive integer")
    ELSE Awaited(aw, "_fetch_segment", kwargs, LAMBDA v : v)

\* get_my_routes(limit=20).
get_my_routes(kwargs, aw) ==
    LET limit == Kw(kwargs, "limit", 20)
    IN  IF limit < 1 THEN Reject("limit must be at least 1")
        ELSE Awaited(aw, "_fetch_routes", [limit |-> Min(limit, 200)],
                     LAMBDA routes : Listed("routes", routes))

\* get_route(route_id).
get_route(kwargs, aw) ==
    IF kwargs.route_id < 1
    THEN Reject("route_id must be a positive integer")
    ELSE Awaited(aw, "_fetch_route", kwargs, LAMBDA v : v)

\* get_my_clubs(limit=None): the limit is handed on as it is.
get_my_clubs(kwargs, aw) ==
    IF "limit" \in DOMAIN kwargs /\ kwargs.limit < 1
    THEN Reject("limit must be at least 1")
    ELSE Awaited(aw, "_fetch_athlete_clubs", kwargs,
                 LAMBDA clubs : Listed("clubs", clubs))

\* get_club(club_id).
get_club(kwargs, aw) ==
    IF kwargs.club_id < 1
    THEN Reject("club_id must be a positive integer")
    ELSE Awaited(aw, "_fetch_club", kwargs, LAMBDA v : v)

\* The tools that list what belongs to a club or an activity,
\* tool(id, limit=30): {id: ..., "count": len(items), key: items}.
ListedOf(kwargs, aw, id, helper, key) ==
    LET limit == Kw(kwargs, "limit", 30)
    IN  IF kwargs[id] < 1
        THEN Reject(id \o " must be a positive integer")
        ELSE IF limit < 1 THEN Reject("limit must be at least 1")
        ELSE Awaited(aw, helper,
                     (id :> kwargs[id]) @@ [limit |-> Min(limit, 200)],
                     LAMBDA items :
                        (id :> kwargs[id]) @@ Listed(key, items))

get_club_members(kwargs, aw) ==
    ListedOf(kwargs, aw, "club_id", "_fetch_club_members", "members")

get_club_activities(kwargs, aw) ==
    ListedOf(kwargs, aw, "club_id", "_fetch_club_activities", "activities")

get_activity_kudos(kwargs, aw) ==
    ListedOf(kwargs, aw, "activity_id", "_fetch_activity_kudos", "kudoers")

get_activity_comments(kwargs, aw) ==
    ListedOf(kwargs, aw, "activity_id", "_fetch_activity_comments",
             "comments")

\* get_my_koms(limit=30).
get_my_koms(kwargs, aw) ==
    LET limit == Kw(kwargs, "limit", 30)
    IN  IF limit < 1 THEN Reject("limit must be at least 1")
        ELSE Awaited(aw, "_fetch_athlete_koms", [limit |-> Min(limit, 200)],
                     LAMBDA koms : Listed("koms", koms))

\* get_starred_segments(limit=30).
get_starred_segments(kwargs, aw) ==
    LET limit == Kw(kwargs, "limit", 30)
    IN  IF limit < 1 THEN Reject("limit must be at least 1")
        ELSE Awaited(aw, "_fetch_starred_segments",
                     [limit |-> Min(limit, 200)],
                     LAMBDA segments : Listed("segments", segments))

\* ' '.strip() and the like: the blank strings of the model strip to "".
strip(s) == IF s \in BlankCodes THEN "" ELSE s

\* lat - lat_offset and its like are floating-point values: a corner of the
\* box is kept as the coordinate of the centre and the offset in km.
LatOffset(lat, km) == [deg |-> lat, km |-> km]
LngOffset(lat, lng, km) == [deg |-> lng, km |-> km, at_lat |-> lat]

\* _geocode_location(query, radius_km), location being the answer of
\* _geocoder.geocode(query, exactly_one=True).
_geocode_location(query, radius_km, location) ==
    IF location = None
    THEN Raise(ValueError("Could not find location: " \o query))
    ELSE LET lat == location.latitude
             lng == location.longitude
         IN  Return([query |-> query,
                     location |-> [name |-> location.address,
                                   latitude |-> lat, longitude |-> lng],
                     bounds |-> [sw_lat |-> LatOffset(lat, 0 - radius_km),
                                 sw_lng |-> LngOffset(lat, lng, 0 - radius_km),
                                 ne_lat |-> LatOffset(lat, radius_km),
                                 ne_lng |-> LngOffset(lat, lng, radius_km)],
                     radius_km |-> radius_km])

\* geocode_location(query, radius_km=5.0).
geocode_location(kwargs, aw) ==
    LET query == kwargs.query
        radius_km == Kw(kwargs, "radius_km", 5)
    IN  IF query = "" \/ strip(query) = ""
        THEN Reject("Query cannot be empty")
        ELSE IF radius_km <= 0 THEN Reject("radius_km must be positive")
        ELSE IF radius_km > 50
        THEN Reject("radius_km must be <= 50km to avoid too large search areas")
        ELSE Awaited(aw, "_geocode_location",
                     [query |-> strip(query), radius_km |-> radius_km],
                     LAMBDA v : v)

\* explore_running_segments(location, bounds, radius_km, min_cat, max_cat):
\* a parameter left out of kwargs is None (radius_km 5.0). With a location
\* the tool awaits the geocode_location tool, which returns a dict also for
\* an exception, and then _explore_segments.
explore_running_segments(kwargs, aw) ==
    LET location == Kw(kwargs, "location", "")
        bounds == Kw(kwargs, "bounds", <<>>)
        radius_km == Kw(kwargs, "radius_km", 5)
        geo == geocode_location([query |-> location,
                                 radius_km |-> radius_km], aw)
        geo_result == handle_strava_errors(geo.out)
        cats(rest, location_info) ==
            IF "min_cat" \in DOMAIN kwargs
               /\ (kwargs.min_cat < 0 \/ kwargs.min_cat > 5)
            THEN Reject("min_cat must be between 0 and 5")
            ELSE IF "max_cat" \in DOMAIN kwargs
                    /\ (kwargs.max_cat < 0 \/ kwargs.max_cat > 5)
            THEN Reject("max_cat must be between 0 and 5")
            ELSE Awaited(rest, "_explore_segments", EmptyDict,
                         LAMBDA segments :
                            Listed("segments", segments)
                              @@ (IF location_info = None THEN EmptyDict
                                  ELSE [searched_location |->
                                            location_info]))
    IN  IF location = "" /\ bounds = <<>>
        THEN Reject("Provide either 'location' or 'bounds'")
        ELSE IF location # "" /\ bounds # <<>>
        THEN Reject("Provide either 'location' or 'bounds', not both")
        ELSE IF location # ""
        THEN IF geo.do = "await" THEN geo
             ELSE IF IsError(geo_result) THEN End(Return(geo_result))
             ELSE cats(Tail(aw), geo_result.location)
        ELSE IF Len(bounds) # 4
        THEN Reject("bounds must be [sw_lat, sw_lng, ne_lat, ne_lng]")
        ELSE cats(aw, None)

\* The data tools and the calls made of them.
DataTools ==
    {"get_activities", "get_athlete", "get_athlete_stats",
     "get_activity_details", "geocode_location", "explore_running_segments",
     "get_segment", "get_my_routes", "get_route", "get_my_clubs", "get_club",
     "get_club_members", "get_club_activities", "get_activity_kudos",
     "get_activity_comments", "get_my_koms", "get_starred_segments"}

Radii == {0, 50, 51}
Box == <<1, 2, 3, 4>>
Ids == {0, 1}

\* The calls of a tool with the keyword arguments of kws.
CallsOfTool(tool, kws) == { [kwargs |-> k, tool |-> tool] : k \in kws }

Limits == {EmptyDict, [limit |-> 0], [limit |-> 1]}

DataCalls ==
    CallsOfTool("get_athlete", {EmptyDict})
    \cup CallsOfTool("get_activities",
                     {EmptyDict, [limit |-> 0], [after |-> "2025-12-01"],
                      [after |-> "yesterday"], [before |-> "soon"]})
    \cup CallsOfTool("get_athlete_stats",
                     {EmptyDict} \cup {[athlete_id |-> i] : i \in Ids})
    \cup CallsOfTool("get_activity_details",
                     {[activity_id |-> i] : i \in Ids})
    \cup CallsOfTool("get_segment", {[segment_id |-> i] : i \in Ids})
    \cup CallsOfTool("get_route", {[route_id |-> i] : i \in Ids})
    \cup CallsOfTool("get_club", {[club_id |-> i] : i \in Ids})
    \cup UNION { CallsOfTool(tool,
                    {[club_id |-> i] : i \in Ids}
                        \cup {[club_id |-> i, limit |-> 0] : i \in Ids}) :
                  tool \in {"get_club_members", "get_club_activities"} }
    \cup UNION { CallsOfTool(tool,
                    {[activity_id |-> i] : i \in Ids}
                        \cup {[activity_id |-> i, limit |-> 0] : i \in Ids}) :
                  tool \in {"get_activity_kudos", "get_activity_comments"} }
    \cup UNION { CallsOfTool(tool, Limits) :
                  tool \in {"get_my_routes", "get_my_clubs", "get_my_koms",
                            "get_starred_segments"} }
    \cup CallsOfTool("geocode_location",
                     {[query |-> q, radius_km |-> r] :
                        q \in {"", " ", "Paris"}, r \in Radii})
    \cup CallsOfTool("explore_running_segments",
                     {EmptyDict, [bounds |-> Box, location |-> "Paris"],
                      [bounds |-> Box], [bounds |-> <<1, 2, 3>>],
                      [bounds |-> Box, min_cat |-> 6],
                      [bounds |-> Box, max_cat |-> 6], [location |-> " "],
                      [location |-> "Paris", max_cat |-> 6]}
                        \cup {[location |-> "Paris", radius_km |-> r] :
                                r \in Radii})

\* The body of the tool of 'call' after the awaits with outcomes aw.
data_tool(call, aw) ==
    CASE call.tool = "get_activities" -> get_activities(call.kwargs, aw)
      [] call.tool = "get_athlete" ->
            Awaited(aw, "_fetch_athlete", EmptyDict, LAMBDA v : v)
      [] call.tool = "get_athlete_stats" ->
            get_athlete_stats(call.kwargs, aw)
      [] call.tool = "get_activity_details" ->
            get_activity_details(call.kwargs, aw)
      [] call.tool = "geocode_location" -> geocode_location(call.kwargs, aw)
      [] call.tool = "explore_running_segments" ->
            explore_running_segments(call.kwargs, aw)
      [] call.tool = "get_segment" -> get_segment(call.kwargs, aw)
      [] call.tool = "get_my_routes" -> get_my_routes(call.kwargs, aw)
      [] call.tool = "get_route" -> get_route(call.kwargs, aw)
      [] call.tool = "get_my_clubs" -> get_my_clubs(call.kwargs, aw)
      [] call.tool = "get_club" -> get_club(call.kwargs, aw)
      [] call.tool = "get_club_members" -> get_club_members(call.kwargs, aw)
      [] call.tool = "get_club_activities" ->
            get_club_activities(call.kwargs, aw)
      [] call.tool = "get_activity_kudos" ->
            get_activity_kudos(call.kwargs, aw)
      [] call.tool = "get_activity_comments" ->
            get_activity_comments(call.kwargs, aw)
      [] call.tool = "get_my_koms" -> get_my_koms(call.kwargs, aw)
      [] call.tool = "get_starred_segments" ->
            get_starred_segments(call.kwargs, aw)

\* The answers of _geocoder.geocode: no match, a place, a failure.
Place == [address |-> "Paris, France", latitude |-> 49, longitude |-> 2]
GeocoderAnswers ==
    {Return(None), Return(Place), Raise(Exc("GeocoderUnavailable"))}

\* What the provider calls of a _fetch_* helper end in: the value the
\* helper makes of the answer, a list of at most 'limit' items where it
\* lists, or a failure.
Items == <<[id |-> 7], [id |-> 8]>>
ApiAnswers(a) ==
    IF a.helper = "_fetch_athlete"
    THEN {Return(AthleteProfile)} \cup {Raise(f) : f \in ToolFailures}
    ELSE {Raise(HTTPError(404))} \cup
         IF a.helper \in {"_fetch_athlete_stats", "_fetch_activity_details",
                          "_fetch_segment", "_fetch_route", "_fetch_club"}
         THEN {Return(a.args)}
         ELSE {Return(SubSeq(Items, 1, n)) :
                 n \in 0..Min(Len(Items), Kw(a.args, "limit", Len(Items)))}

\* A caller that runs no tool.
NotRunning == [at |-> "idle"]

\* The calls get_authenticated_client made for caller t.
GacCalls(t) ==
    LET mine == SelectSeq(refreshes, LAMBDA c : c.caller = t)
    IN  <<"load_tokens">> \o
        (IF mine = <<>> THEN <<>>
         ELSE IF Raised(mine[1].out) THEN <<"refresh_access_token">>
         ELSE <<"refresh_access_token", "save_tokens">>)

\* Caller t runs the body of the tool of 'call' on from the awaits with
\* outcomes aw, 'calls' having been made: to its end, where the wrapper of
\* handle_strava_errors returns a dict, or to its next await. A _fetch_*
\* helper starts with get_authenticated_client. The record of a call that
\* ended keeps its keyword arguments, the dict returned, the calls made and
\* the outcome of the body.
Proceed(t, call, aw, calls) ==
    LET s == data_tool(call, aw)
    IN  IF s.do = "end"
        THEN /\ last' = Call(call.tool, call.kwargs,
                             Return(handle_strava_errors(s.out)))
                           @@ [calls |-> calls, body |-> s.out]
             /\ running' = [running EXCEPT ![t] = [at |-> "returned"]]
             /\ UNCHANGED <<pc, calledExpired>>
        ELSE IF s.helper = "_geocode_location"
        THEN /\ running' = [running EXCEPT ![t] =
                               [at |-> "geocoding", call |-> call,
                                aw |-> aw, calls |-> calls]]
             /\ UNCHANGED <<last, pc, calledExpired>>
        ELSE /\ running' = [running EXCEPT ![t] =
                               [at |-> "fetching", call |-> call,
                                aw |-> aw, calls |-> calls]]
             /\ pc' = [pc EXCEPT ![t] = "waiting"]
             /\ calledExpired' = [calledExpired EXCEPT ![t] = StoredExpired]
             /\ UNCHANGED last

\* Caller t calls a data tool: the call is refused, or the tool awaits its
\* first helper.
DataCall(t, call) ==
    /\ running[t] = NotRunning
    /\ pc[t] = "idle"
    /\ Proceed(t, call, <<>>, <<>>)
    /\ UNCHANGED <<now, ticks, _tokens, saved, threadVars, objectVars,
                   oauthVars, envVars, auth, managerVars, _refresh_lock, result,
                   refreshes>>

\* The tool calls the model follows are those of caller 1; the other callers
\* run get_authenticated_client for tools of their own.
ToolGetAthlete ==
    DataCall(1, [kwargs |-> EmptyDict, tool |-> "get_athlete"])

ToolDataCall ==
    \E call \in DataCalls : call.tool # "get_athlete"
                               /\ DataCall(1, call)

\* The geocoder answers and _geocode_location returns or raises.
DataGeocode(t) ==
    /\ running[t].at = "geocoding"
    /\ \E g \in GeocoderAnswers :
        LET r == running[t]
            a == data_tool(r.call, r.aw).args
            out == IF Raised(g) THEN g
                   ELSE _geocode_location(a.query, a.radius_km, g.ret)
        IN  Proceed(t, r.call, r.aw \o <<out>>, r.calls \o <<"geocode">>)
    /\ UNCHANGED <<now, ticks, _tokens, saved, threadVars, objectVars,
                   oauthVars, envVars, auth, managerVars, _refresh_lock, result,
                   refreshes>>

\* get_authenticated_client has returned to the _fetch_* helper of caller
\* t: its exception ends the helper, with a client the provider calls are
\* made and answered; the tool returns.
DataReturn(t) ==
    /\ running[t].at = "fetching"
    /\ pc[t] = "done"
    /\ LET r == running[t]
       IN  \E api \in ApiAnswers(data_tool(r.call, r.aw)) :
            Proceed(t, r.call, r.aw \o <<_fetch(result[t], api)>>,
                    r.calls \o GacCalls(t)
                        \o (IF Raised(result[t]) THEN <<>> ELSE <<"api">>))
    /\ UNCHANGED <<now, ticks, _tokens, saved, threadVars, objectVars,
                   oauthVars, envVars, auth, managerVars, _refresh_lock, result,
                   refreshes>>

NoCall == [op |-> "", arg |-> None, at |-> StartTime, out |-> Return(None)]
NoWrite == [by |-> "", val |-> None, over |-> FALSE, after |-> ""]

InitCommon ==
    /\ now = StartTime
    /\ ticks = 0
    /\ last = NoCall
    /\ saved = NoWrite
    /\ _lock = 0
    /\ th = [t \in 1..NumThreads |-> IdleThread]
    /\ hist = <<>>
    /\ heap = <<>>
    /\ storeObj = 0
    /\ _pending_states = EmptyDict
    /\ removed = EmptyDict
    /\ vlog = EmptyDict
    /\ issuedAt = EmptyDict
    /\ req = [r \in 1..NumRequests |-> NoParams]
    /\ cpc = [r \in 1..NumRequests |-> "idle"]
    /\ response = NoResponse
    /\ exchanges = <<>>
    /\ page = NoView
    /\ sent = NoSent
    /\ _refresh_lock = 0
    /\ _state_lock = 0
    /\ nested = {}
    /\ refreshed = [t \in 1..NumCallers |-> None]
    /\ pc = [t \in 1..NumCallers |-> "idle"]
    /\ result = [t \in 1..NumCallers |-> Return(None)]
    /\ calledExpired = [t \in 1..NumCallers |-> FALSE]
    /\ refreshes = <<>>
    /\ auth = NoAuth
    /\ running = [t \in 1..NumCallers |-> NotRunning]

Configured == [client_id |-> "12345", client_secret |-> "secret"]
Unconfigured == [client_id |-> "", client_secret |-> ""]

InitStore ==
    /\ InitCommon
    /\ ListenerRunning
    /\ _tokens = None
    /\ env = Configured

NextStore == StoreSave \/ StoreLoad \/ StoreDelete \/ StoreIsExpired

SpecStore == InitStore /\ [][NextStore]_vars

(***************************************************************************)
(* tokens.py: the store and the dict objects its callers hold              *)
(***************************************************************************)
\* A dict object: its value, where it came from ("caller": built by a
\* caller, "load": returned by load_tokens, "store": the copy save_tokens
\* made), whether it was passed to save_tokens and whether a caller has a
\* reference to it.
Object(val, from) ==
    [val |-> val, from |-> from, passed |-> FALSE, held |-> from # "store"]

\* Mutant: no copy is made, the same object is used.
dict_object_alias(h, src, from) == [heap |-> h, ref |-> src]
\* dict(x): a new object with the value of object src.
dict_object(h, src, from) ==
    [heap |-> Append(h, Object(h[src].val, from)), ref |-> Len(h) + 1]

\* The objects a caller has a reference to.
CallerHeld == {c \in 1..Len(heap) : heap[c].held}

\* The value of the object ref refers to; None for no object.
Deref(h, ref) == IF ref = 0 THEN None ELSE h[ref].val

\* The fields a caller assigns and the values it assigns to them.
Assignments ==
    {<<"access_token", "changed">>, <<"refresh_token", "changed">>,
     <<"expires_at", 0>>}

\* A caller builds a token dict.
ObjNew ==
    /\ Len(heap) < MaxObjects
    /\ \E T \in SaveArgs : heap' = Append(heap, Object(T, "caller"))
    /\ last' = Call("dict", None, Return(None))
    /\ UNCHANGED <<now, ticks, _tokens, saved, threadVars, storeObj,
                   oauthVars, envVars, toolVars, managerVars, callerVars>>

\* save_tokens(tokens) with the object c: _tokens = dict(tokens).
ObjSave ==
    /\ Len(heap) < MaxObjects
    /\ \E c \in CallerHeld :
        LET passed == [heap EXCEPT ![c].passed = TRUE]
            new == dict_object(passed, c, "store")
        IN  /\ heap' = new.heap
            /\ storeObj' = new.ref
            /\ _tokens' = save_tokens(Deref(new.heap, new.ref))
            /\ saved' = Write("save_tokens", heap[c].val)
    /\ last' = Call("save_tokens", None, Return(None))
    /\ UNCHANGED <<now, ticks, threadVars, oauthVars, envVars, toolVars,
                   managerVars, callerVars>>

\* load_tokens(): dict(_tokens) if _tokens else None; the caller holds the
\* object returned.
ObjLoad ==
    /\ IF Truthy(Deref(heap, storeObj))
       THEN /\ Len(heap) < MaxObjects
            /\ LET new == dict_object(heap, storeObj, "load")
               IN  /\ heap' = [new.heap EXCEPT ![new.ref].held = TRUE]
                   /\ last' = Call("load_tokens", None,
                                   Return(Deref(new.heap, new.ref)))
       ELSE /\ last' = Call("load_tokens", None, Return(None))
            /\ UNCHANGED heap
    /\ UNCHANGED <<now, ticks, _tokens, saved, threadVars, storeObj,
                   oauthVars, envVars, toolVars, managerVars, callerVars>>

\* delete_tokens(): _tokens = None.
ObjDelete ==
    /\ storeObj' = 0
    /\ _tokens' = delete_tokens_call(_tokens).store
    /\ last' = Call("delete_tokens", None, delete_tokens_call(_tokens).out)
    /\ saved' = Write("delete_tokens", None)
    /\ UNCHANGED <<now, ticks, threadVars, heap, oauthVars, envVars, toolVars,
                   managerVars, callerVars>>

\* A caller assigns to a field of a dict object it holds; the store sees the
\* assignment when _tokens refers to that very object.
ObjMutate ==
    /\ \E c \in CallerHeld, a \in Assignments :
        /\ heap[c].val[a[1]] # a[2]
        /\ heap' = [heap EXCEPT ![c].val[a[1]] = a[2]]
        /\ _tokens' = Deref(heap', storeObj)
    /\ last' = Call("assign", None, Return(None))
    /\ UNCHANGED <<now, ticks, saved, threadVars, storeObj, oauthVars, envVars, toolVars,
                   managerVars,
                   callerVars>>

InitThreads ==
    /\ InitCommon
    /\ ListenerRunning
    /\ _tokens = None
    /\ env = Configured

NextThreads ==
    \/ \E t \in 1..NumThreads : ThreadCall(t)
    \/ \E t \in 1..NumThreads : ThreadSave(t)
    \/ \E t \in 1..NumThreads : ThreadDelete(t)
    \/ \E t \in 1..NumThreads : ThreadLoadTest(t)
    \/ \E t \in 1..NumThreads : ThreadLoadCopy(t)

SpecThreads == InitThreads /\ [][NextThreads]_vars

InitObjects ==
    /\ InitCommon
    /\ ListenerRunning
    /\ _tokens = None
    /\ env = Configured

NextObjects == ObjNew \/ ObjSave \/ ObjLoad \/ ObjDelete \/ ObjMutate

SpecObjects == InitObjects /\ [][NextObjects]_vars

EnvChoices == {Configured, Unconfigured}

\* STRAVA_CLIENT_ID holds a text that is no number.
NonNumeric == [client_id |-> "abc", client_secret |-> "secret"]

\* Only STRAVA_CLIENT_ID is set.
IdOnly == [client_id |-> "12345", client_secret |-> ""]

InitTools ==
    /\ InitCommon
    /\ ListenerRunning
    /\ _tokens = None
    /\ env \in EnvChoices \cup {IdOnly, NonNumeric}

NextTools ==
    \/ StoreSave
    \/ ToolGetAuthStatus
    \/ ToolGetAuthUrl
    \/ ToolAuthenticate
    \/ ToolAuthenticateExchanged
    \/ ToolAuthenticateFetched
    \/ ToolLogout

SpecTools == InitTools /\ [][NextTools]_vars

(***************************************************************************)
(* The listener's lifecycle: main() and get_auth_url start it, its thread  *)
(* may end                                                                 *)
(***************************************************************************)
\* main(): start_oauth_server() before mcp.run serves the first tool call.
main ==
    /\ last = NoCall
    /\ _thread = 0
    /\ listeners = <<>>
    /\ \E outcome \in StartOutcomes :
        /\ start_oauth_server(outcome)
        /\ last' = Call("main", None, Return(None))
                        @@ [start |-> Started(outcome)]
    /\ UNCHANGED <<now, ticks, _tokens, saved, threadVars, objectVars,
                   oauthVars, envVars, toolVars, callerVars>>

\* The get_auth_url tool is called, which mcp.run allows once main() has
\* made its start call.
ManagerGetAuthUrl == last # NoCall /\ ToolGetAuthUrl

\* server.run() of a listener thread ends (the port is taken, or the
\* server stops): the thread is not alive any more.
ListenerExit ==
    /\ \E i \in 1..Len(listeners) :
        /\ listeners[i] = "alive"
        /\ listeners' = [listeners EXCEPT ![i] = "dead"]
    /\ UNCHANGED <<now, ticks, _tokens, storeVars, oauthVars, envVars, toolVars, _thread,
                   callerVars>>

InitManager ==
    /\ InitCommon
    /\ _thread = 0
    /\ listeners = <<>>
    /\ _tokens = None
    /\ env \in EnvChoices

NextManager ==
    \/ main
    \/ ManagerGetAuthUrl
    \/ ListenerExit

SpecManager == InitManager /\ [][NextManager]_vars

InitOAuth ==
    /\ InitCommon
    /\ ListenerRunning
    /\ _tokens = None
    /\ env \in EnvChoices

NextOAuth ==
    \/ Login
    \/ \E r \in 1..NumRequests : CallbackReceive(r)
    \/ \E r \in 1..NumRequests : CallbackExchangeFail(r)
    \/ \E r \in 1..NumRequests : CallbackExchangeOk(r)
    \/ \E r \in 1..NumRequests : CallbackAthlete(r)
    \/ Tick

SpecOAuth == InitOAuth /\ [][NextOAuth]_vars

(***************************************************************************)
(* oauth.py: the state tracker called directly, logins being abandoned     *)
(***************************************************************************)
LoginTokens == { StateToken(i) : i \in 1..MaxLogins }

\* generate_oauth_state(): the token handed out is pending from the second
\* clock reading on.
StateGenerate ==
    /\ \E d \in {0, 1} :
        LET state == StateToken(Cardinality(Issued) + 1) IN
        /\ state \in LoginTokens
        /\ InCallAdvance(d)
        /\ _pending_states' =
               generate_oauth_state(_pending_states, state, now, now')
        /\ removed' = Removals(_pending_states', {}, now')
        /\ vlog' = [k \in Issued \cup {state} |->
                       IF k = state THEN <<>> ELSE vlog[k]]
        /\ issuedAt' = [k \in Issued \cup {state} |->
                           IF k = state THEN now' ELSE issuedAt[k]]
    /\ UNCHANGED <<_tokens, storeVars, req, cpc, response, exchanges, page,
                   sent, envVars, toolVars, managerVars, callerVars>>

\* The number of validate_oauth_state calls logged for the tokens in ks.
RECURSIVE Presented(_)
Presented(ks) ==
    IF ks = {} THEN 0
    ELSE LET k == CHOOSE x \in ks : TRUE
         IN  Len(vlog[k]) + Presented(ks \ {k})

\* validate_oauth_state(state); issued tokens are presented NumRequests
\* times at most.
StateValidate(state) ==
    /\ state \in Issued => Presented(Issued) < NumRequests
    /\ \E d \in {0, 1} :
        /\ d = 1 => SecondRead(_pending_states, Absent, state, now)
        /\ InCallAdvance(d)
        /\ LET v == validate_oauth_state(_pending_states, state, now, now')
               validated ==
                   <<Validation(_pending_states, state, now', v.ret)>>
           IN  /\ _pending_states' = v.pending
               /\ vlog' = Logged(validated)
               /\ removed' = Removals(v.pending, ConsumedBy(validated), now')
    /\ UNCHANGED <<_tokens, storeVars, issuedAt, req, cpc, response,
                   exchanges, page, sent, envVars, toolVars, managerVars, callerVars>>

NextStates ==
    \/ StateGenerate
    \/ \E state \in StateParams : StateValidate(state)
    \/ Tick

SpecStates == InitStore /\ [][NextStates]_vars

(***************************************************************************)
(* The authorization flow: a URL is handed out by the page or by the       *)
(* get_auth_url tool, and the provider redirects the browser to the        *)
(* callback with the parameters that URL determines                        *)
(***************************************************************************)
\* Request r is received in this step.
Received(r) == cpc[r] = "idle" /\ cpc'[r] # "idle"

\* The parameters of the request r received in this step.
ParamsOf(r) ==
    IF cpc'[r] = "done"
    THEN [error |-> response'.error, state |-> response'.state,
          code |-> response'.code]
    ELSE req'[r]

\* The authorization URL the get_auth_url tool returned last, if any.
ToolUrls ==
    IF last.op = "get_auth_url" /\ ~Raised(last.out)
    THEN {last.out.ret.auth_url} ELSE {}

\* The authorization URL the page rendered last, if any.
PageUrls == IF page.name = "login.html" THEN {page.authorize_url} ELSE {}

\* The state the provider hands back for an authorization started from
\* url: the one of the URL, none or an empty one when the URL has none.
RedirectStates(url) ==
    IF "state" \in DOMAIN url THEN {url.state} ELSE {Absent, ""}

\* The query of the redirect to redirect_uri: the user approved (a code) or
\* denied (an error).
RedirectParams(url) ==
    { [error |-> Absent, state |-> s, code |-> "c1"] :
        s \in RedirectStates(url) }
    \cup { [error |-> "access_denied", state |-> s, code |-> Absent] :
        s \in RedirectStates(url) }

\* The provider redirects an authorization started from url: request r to
\* the callback.
ProviderRedirect(r, url) ==
    /\ url.redirect_uri = RedirectUri
    /\ CallbackReceive(r)
    /\ ParamsOf(r) \in RedirectParams(url)

RedirectFromTool(r) == \E url \in ToolUrls : ProviderRedirect(r, url)

RedirectFromPage(r) == \E url \in PageUrls : ProviderRedirect(r, url)

\* get_auth_url() called while the listener runs.
FlowGetAuthUrl ==
    /\ \E outcome \in StartOutcomes :
        /\ start_oauth_server(outcome)
        /\ last' = Call("get_auth_url", None, get_auth_url(env))
                        @@ [start |-> Started(outcome)]
    /\ UNCHANGED <<now, ticks, _tokens, saved, threadVars, objectVars,
                   oauthVars, envVars, toolVars, callerVars>>

NextFlow ==
    \/ FlowGetAuthUrl
    \/ Login
    \/ \E r \in 1..NumRequests : RedirectFromTool(r)
    \/ \E r \in 1..NumRequests : RedirectFromPage(r)
    \/ \E r \in 1..NumRequests : CallbackExchangeFail(r)
    \/ \E r \in 1..NumRequests : CallbackExchangeOk(r)
    \/ \E r \in 1..NumRequests : CallbackAthlete(r)
    \/ StaticGet
    \/ Tick

InitFlow ==
    /\ InitCommon
    /\ ListenerRunning
    /\ _tokens = None
    /\ env \in EnvChoices \cup {NonNumeric}

SpecFlow == InitFlow /\ [][NextFlow]_vars

\* The token sets a past authorization may have left in the store.
StoredSets(t) ==
    { [access_token |-> "a1", refresh_token |-> "r1", expires_at |-> x] :
        x \in ExpiryChoices(t) \ {0} }

\* A stored set without refresh_token, as save_tokens accepts it.
NoRefreshSet == [access_token |-> "a1", expires_at |-> StartTime + 1]

Init ==
    /\ InitCommon
    /\ ListenerRunning
    /\ _tokens \in {None, NoRefreshSet} \cup StoredSets(StartTime)
    /\ env \in EnvChoices \cup {NonNumeric}

Next ==
    \/ \E t \in 1..NumCallers : GacCall(t)
    \/ \E t \in 1..NumCallers : GacAcquire(t)
    \/ \E t \in 1..NumCallers : GacLoad(t)
    \/ \E t \in 1..NumCallers : GacRefreshOk(t)
    \/ \E t \in 1..NumCallers : GacRefreshFail(t)
    \/ TickSecond

Spec == Init /\ [][Next]_vars

(***************************************************************************)
(* A data tool call beside the get_authenticated_client calls of other     *)
(* tools and logout, the clock advancing                                   *)
(***************************************************************************)
NextData ==
    \/ ToolGetAthlete
    \/ ToolDataCall
    \/ DataGeocode(1)
    \/ DataReturn(1)
    \/ GacAcquire(1)
    \/ GacLoad(1)
    \/ GacRefreshOk(1)
    \/ GacRefreshFail(1)
    \/ ToolLogout
    \/ TickSecond

SpecData == Init /\ [][NextData]_vars

(***************************************************************************)
(* A session: the lifecycle tools logout and authenticate called while     *)
(* get_authenticated_client calls are running                              *)
(***************************************************************************)
\* authenticate(code) with a code the user copied: the exchange succeeds or
\* the provider rejects the code, and the profile fetch succeeds or fails.
SessionAuthenticate == AuthenticateCall("c1")

SessionExchanged ==
    \E ex \in {Return([access_token |-> "a2", refresh_token |-> "r2",
                        expires_at |-> StartTime + 21600]),
                Raise(HTTPError(400))} :
        AuthenticateExchanged(ex)

SessionFetched ==
    \E ath \in {Return(AthleteProfile), Raise(HTTPError(401))} :
        AuthenticateFetched(ath)

NextSession ==
    \/ \E t \in 1..NumCallers : GacCall(t)
    \/ \E t \in 1..NumCallers : GacAcquire(t)
    \/ \E t \in 1..NumCallers : GacLoad(t)
    \/ \E t \in 1..NumCallers : GacRefreshOk(t)
    \/ \E t \in 1..NumCallers : GacRefreshFail(t)
    \/ ToolLogout
    \/ SessionAuthenticate
    \/ SessionExchanged
    \/ SessionFetched
    \/ TickSecond

SpecSession == Init /\ [][NextSession]_vars

(***************************************************************************)
(* The writers of the store, one call of each kind at a time: the callback *)
(* of an authorization started from the page, the authenticate tool and    *)
(* the refresh of a get_authenticated_client call                          *)
(***************************************************************************)
NextWriters ==
    \/ Login
    \/ RedirectFromPage(1)
    \/ CallbackExchangeFail(1)
    \/ CallbackExchangeOk(1)
    \/ CallbackAthlete(1)
    \/ SessionAuthenticate
    \/ SessionExchanged
    \/ SessionFetched
    \/ GacCall(1)
    \/ GacAcquire(1)
    \/ GacLoad(1)
    \/ GacRefreshOk(1)
    \/ GacRefreshFail(1)

SpecWriters == Init /\ [][NextWriters]_vars

\* Every caller is done with get_authenticated_client.
AllCallersDone == \A t \in 1..NumCallers : pc[t] = "done"

(***************************************************************************)
(* SpecLive: the three locks. Every 'with' block is entered in a step of   *)
(* its own, so that a thread can be seen holding a lock and waiting for    *)
(* another. The callers call get_authenticated_client again and again;     *)
(* beside them runs a thread that calls the functions of tokens.py and     *)
(* oauth.py that take a lock, as the handlers and the lifecycle tools do,  *)
(* one call after the other.                                               *)
(***************************************************************************)
LockNames == {"_refresh_lock", "_lock", "_state_lock"}

\* The thread holding lock l, 0 when it is free.
Holder(l) ==
    CASE l = "_refresh_lock" -> _refresh_lock
      [] l = "_lock" -> _lock
      [] l = "_state_lock" -> _state_lock

\* The locks thread i holds.
Held(i) == {l \in LockNames : Holder(l) = i}

\* 'nested' once thread i has entered 'with l'.
Entered(i, l) == nested \cup {<<h, l>> : h \in Held(i)}

\* The thread of the i-th caller of the store and state functions; the
\* callers of get_authenticated_client are the threads 1..NumCallers.
ApiThread(i) == NumCallers + i

\* The sets the threads save: one that has expired, so that the callers
\* have to refresh again.
ExpiredSets == {T \in SaveArgs : T["expires_at"] < StartTime}

\* The calls of the functions that take _lock or _state_lock:
\* <<function, argument>>: the store is read, written or cleared, and the
\* state of one authorization is generated and validated. The argument of
\* generate_oauth_state is the token secrets.token_urlsafe will hand it.
LockedCalls ==
    {<<"save_tokens", T>> : T \in ExpiredSets}
        \cup {<<"load_tokens", None>>,
              <<"delete_tokens", None>>,
              <<"generate_oauth_state", StateToken(1)>>,
              <<"validate_oauth_state", StateToken(1)>>}

\* The lock a function runs under.
LockOf(op) ==
    IF op \in {"generate_oauth_state", "validate_oauth_state"}
    THEN "_state_lock" ELSE "_lock"

\* The state tokens of the generate_oauth_state calls in progress.
BeingGenerated ==
    {th[i].arg : i \in {j \in 1..NumThreads :
                            th[j].op = "generate_oauth_state"}}

\* The answer of the provider to a refresh call at time t: both tokens are
\* new and valid for six hours.
RotatedResponses(t) ==
    {resp \in ProviderResponses(t) :
        /\ resp.access_token = "a2" /\ resp.refresh_token = "r2"
        /\ resp.expires_at > t}

\* Caller t calls get_authenticated_client, for the first time or again,
\* and waits for _refresh_lock; the call has no result yet.
LkCall(t) ==
    /\ pc[t] \in {"idle", "done"}
    /\ pc' = [pc EXCEPT ![t] = "waiting"]
    /\ result' = [result EXCEPT ![t] = Return(None)]
    /\ UNCHANGED <<now, ticks, _tokens, storeVars, oauthVars, envVars,
                   toolVars, managerVars, _refresh_lock, calledExpired,
                   refreshes>>

\* Caller t enters 'with _refresh_lock'.
LkAcquire(t) ==
    /\ pc[t] = "waiting"
    /\ CanAcquire(_refresh_lock)
    /\ _refresh_lock' = t
    /\ nested' = Entered(t, "_refresh_lock")
    /\ pc' = [pc EXCEPT ![t] = "locked"]
    /\ UNCHANGED <<now, ticks, _tokens, storeVars, oauthVars, env,
                   _state_lock, refreshed, toolVars, managerVars, result,
                   calledExpired, refreshes>>

\* Caller t, inside 'with _refresh_lock', enters the 'with _lock' of
\* load_tokens().
LkLoadEnter(t) ==
    /\ pc[t] = "locked"
    /\ StoreLockFree(_lock)
    /\ _lock' = t
    /\ nested' = Entered(t, "_lock")
    /\ pc' = [pc EXCEPT ![t] = "loading"]
    /\ UNCHANGED <<now, ticks, _tokens, last, saved, th, hist, objectVars,
                   oauthVars, env, _state_lock, refreshed, toolVars,
                   managerVars, _refresh_lock, result, calledExpired,
                   refreshes>>

\* load_tokens() returns, leaving _lock, and caller t checks the set: it
\* leaves 'with _refresh_lock' with an exception or a client, or it issues
\* the provider refresh call.
LkLoad(t) ==
    /\ pc[t] = "loading"
    /\ _lock' = 0
    /\ LET g == get_authenticated_client(_tokens, env, now)
       IN  /\ _refresh_lock' = LockAfter(g.do, _refresh_lock)
           /\ IF g.do = "refresh"
              THEN /\ pc' = [pc EXCEPT ![t] = "refreshing"]
                   /\ UNCHANGED result
              ELSE /\ result' = [result EXCEPT ![t] = g.out]
                   /\ pc' = [pc EXCEPT ![t] = "done"]
    /\ UNCHANGED <<now, ticks, _tokens, last, saved, th, hist, objectVars,
                   oauthVars, envVars, toolVars, managerVars, calledExpired,
                   refreshes>>

\* refresh_access_token answers caller t: the response is converted.
LkRefreshOk(t) ==
    /\ pc[t] = "refreshing"
    /\ \E resp \in RotatedResponses(now) :
        refreshed' = [refreshed EXCEPT
                          ![t] = token_response_to_dict(resp).ret]
    /\ pc' = [pc EXCEPT ![t] = "saving"]
    /\ UNCHANGED <<now, ticks, _tokens, storeVars, oauthVars, env,
                   _state_lock, nested, toolVars, managerVars,
                   _refresh_lock, result, calledExpired, refreshes>>

\* refresh_access_token fails: the exception leaves the 'with' block, which
\* releases _refresh_lock; nothing is saved.
LkRefreshFail(t) ==
    /\ pc[t] = "refreshing"
    /\ \E e \in RefreshFailures : result' = [result EXCEPT ![t] = Raise(e)]
    /\ _refresh_lock' = 0
    /\ pc' = [pc EXCEPT ![t] = "done"]
    /\ UNCHANGED <<now, ticks, _tokens, storeVars, oauthVars, envVars,
                   toolVars, managerVars, calledExpired, refreshes>>

\* Caller t, inside 'with _refresh_lock', enters the 'with _lock' of
\* save_tokens(tokens).
LkSaveEnter(t) ==
    /\ pc[t] = "saving"
    /\ StoreLockFree(_lock)
    /\ _lock' = t
    /\ nested' = Entered(t, "_lock")
    /\ pc' = [pc EXCEPT ![t] = "storing"]
    /\ UNCHANGED <<now, ticks, _tokens, last, saved, th, hist, objectVars,
                   oauthVars, env, _state_lock, refreshed, toolVars,
                   managerVars, _refresh_lock, result, calledExpired,
                   refreshes>>

\* save_tokens stores the set and leaves _lock; caller t leaves
\* 'with _refresh_lock' and returns a client for the new set.
LkSave(t) ==
    /\ pc[t] = "storing"
    /\ _tokens' = save_tokens(refreshed[t])
    /\ _lock' = 0
    /\ _refresh_lock' = 0
    /\ result' = [result EXCEPT ![t] = Client(refreshed[t])]
    /\ refreshed' = [refreshed EXCEPT ![t] = None]
    /\ pc' = [pc EXCEPT ![t] = "done"]
    /\ UNCHANGED <<now, ticks, last, saved, th, hist, objectVars, oauthVars,
                   env, _state_lock, nested, toolVars, managerVars,
                   calledExpired, refreshes>>

\* Thread i calls a function that takes _lock or _state_lock and reaches
\* its 'with'. generate_oauth_state is called while secrets.token_urlsafe
\* has a token it never handed out.
LkApiCall(i) ==
    /\ th[i].pc = "idle"
    /\ \E c \in LockedCalls :
        /\ c[1] = "generate_oauth_state"
              => c[2] \notin Issued \cup BeingGenerated
        /\ th' = [th EXCEPT ![i] = [pc |-> "called", op |-> c[1],
                                    arg |-> c[2]]]
    /\ UNCHANGED <<now, ticks, _tokens, last, saved, _lock, hist,
                   objectVars, oauthVars, envVars, toolVars, managerVars,
                   callerVars>>

\* Thread i enters the 'with' of the function it called.
LkApiEnter(i) ==
    /\ th[i].pc = "called"
    /\ Holder(LockOf(th[i].op)) = 0
    /\ IF LockOf(th[i].op) = "_lock"
       THEN _lock' = ApiThread(i) /\ UNCHANGED _state_lock
       ELSE _state_lock' = ApiThread(i) /\ UNCHANGED _lock
    /\ nested' = Entered(ApiThread(i), LockOf(th[i].op))
    /\ th' = [th EXCEPT ![i].pc = "inside"]
    /\ UNCHANGED <<now, ticks, _tokens, last, saved, hist, objectVars,
                   oauthVars, env, refreshed, toolVars, managerVars,
                   callerVars>>

\* The body of the function thread i called runs and the 'with' is left:
\* the store or the pending states are as the function leaves them. The
\* validate_oauth_state calls are not logged here.
LkApiLeave(i) ==
    /\ th[i].pc = "inside"
    /\ th' = Returned(i)
    /\ IF LockOf(th[i].op) = "_lock"
       THEN _lock' = 0 /\ UNCHANGED _state_lock
       ELSE _state_lock' = 0 /\ UNCHANGED _lock
    /\ _tokens' =
          CASE th[i].op = "save_tokens" -> save_tokens(th[i].arg)
            [] th[i].op = "delete_tokens" -> delete_tokens(_tokens)
            [] OTHER -> _tokens
    /\ _pending_states' =
          CASE th[i].op = "generate_oauth_state"
                  -> generate_oauth_state(_pending_states, th[i].arg,
                                          now, now)
            [] th[i].op = "validate_oauth_state"
                  -> validate_oauth_state(_pending_states, th[i].arg,
                                          now, now).pending
            [] OTHER -> _pending_states
    /\ vlog' = IF th[i].op = "generate_oauth_state"
               THEN [k \in Issued \cup {th[i].arg} |->
                        IF k \in Issued THEN vlog[k] ELSE <<>>]
               ELSE vlog
    /\ UNCHANGED <<now, ticks, last, saved, hist, objectVars, removed,
                   issuedAt, req, cpc, response, exchanges, page, sent, env,
                   nested, refreshed, toolVars, managerVars, callerVars>>

InitLive ==
    /\ InitCommon
    /\ ListenerRunning
    /\ _tokens \in {None} \cup ExpiredSets
    /\ env = Configured

NextLive ==
    \/ \E t \in 1..NumCallers : LkCall(t)
    \/ \E t \in 1..NumCallers : LkAcquire(t)
    \/ \E t \in 1..NumCallers : LkLoadEnter(t)
    \/ \E t \in 1..NumCallers : LkLoad(t)
    \/ \E t \in 1..NumCallers : LkRefreshOk(t)
    \/ \E t \in 1..NumCallers : LkRefreshFail(t)
    \/ \E t \in 1..NumCallers : LkSaveEnter(t)
    \/ \E t \in 1..NumCallers : LkSave(t)
    \/ LkApiCall(1)
    \/ LkApiEnter(1)
    \/ LkApiLeave(1)

\* The scheduling the threads run under: a thread that can go on does so,
\* a thread whose lock stays free enters it, and every provider refresh
\* call returns or fails. threading.Lock promises no more: a thread
\* waiting for a lock that is taken again and again may be passed over.
Fairness ==
    /\ \A t \in 1..NumCallers :
        /\ WF_vars(LkAcquire(t))
        /\ WF_vars(LkLoadEnter(t))
        /\ WF_vars(LkLoad(t))
        /\ WF_vars(LkRefreshOk(t) \/ LkRefreshFail(t))
        /\ WF_vars(LkSaveEnter(t))
        /\ WF_vars(LkSave(t))
    /\ WF_vars(LkApiEnter(1))
    /\ WF_vars(LkApiLeave(1))

SpecLive == InitLive /\ [][NextLive]_vars /\ Fairness

(***************************************************************************)
(* Claims about get_authenticated_client, checked under Spec               *)
(***************************************************************************)
Callers == 1..NumCallers

\* Every caller has returned, and each of them called while the stored set
\* was expired.
AllCalledExpiredAndDone ==
    \A t \in Callers : pc[t] = "done" /\ calledExpired[t]

\* Every provider refresh call made was answered with a set that is not
\* expired.
RefreshesAnsweredFresh ==
    \A i \in 1..Len(refreshes) :
        /\ "ret" \in DOMAIN refreshes[i].out
        /\ refreshes[i].out.ret["expires_at"] > now

\* The provider refresh calls that have not returned yet.
RefreshesInFlight == {i \in 1..Len(refreshes) : refreshes[i].out = InFlight}

\* The callers between their load and their save.
InCriticalSection == {t \in Callers : pc[t] \in {"locked", "refreshing"}}

\* C1: when all callers called get_authenticated_client while the stored
\* set was expired, the credentials are readable and the provider answers
\* with a non-expired set, exactly one provider refresh call was made and
\* every caller returned a client carrying the access token of that answer.
C1_OneRefreshSharedByAllCallers ==
    (/\ AllCalledExpiredAndDone
     /\ CredentialsReadable(env)
     /\ RefreshesAnsweredFresh)
    => /\ Len(refreshes) = 1
       /\ \A t \in Callers :
            /\ "ret" \in DOMAIN result[t]
            /\ result[t].ret.access_token
                  = refreshes[1].out.ret["access_token"]

\* C1 witness: several callers, all of which called on an expired store,
\* have returned after a single refresh answered with a non-expired set whose
\* access token differs from the stored one they found.
C1_Witness ==
    /\ NumCallers >= 2
    /\ AllCalledExpiredAndDone
    /\ CredentialsReadable(env)
    /\ RefreshesAnsweredFresh
    /\ Len(refreshes) = 1
    /\ refreshes[1].out.ret["access_token"] = "a2"
    /\ \A t \in Callers : result[t] = Client(_tokens)

\* C2: at most one caller is between its load and its save, that caller
\* holds _refresh_lock, and at most one provider refresh call is in flight.
C2_RefreshNeverConcurrent ==
    /\ Cardinality(InCriticalSection) <= 1
    /\ \A t \in InCriticalSection : _refresh_lock = t
    /\ Cardinality(RefreshesInFlight) <= 1
    /\ \A i \in RefreshesInFlight : pc[refreshes[i].caller] = "refreshing"

\* C2 witness: one caller's refresh call is in flight while every other
\* caller waits for the lock on the same expired store.
C2_Witness ==
    /\ \E t \in Callers :
        /\ pc[t] = "refreshing"
        /\ \A u \in Callers \ {t} : pc[u] = "waiting" /\ calledExpired[u]
    /\ Cardinality(RefreshesInFlight) = 1

\* The store holds nothing get_authenticated_client can build a client
\* from: it is empty, or the stored set has no refresh_token.
NothingUsableStored ==
    ~Truthy(_tokens) \/ "refresh_token" \notin DOMAIN _tokens

\* C14: a caller that finds the store empty or the stored set without
\* refresh_token leaves get_authenticated_client with the ValueError "Not
\* authenticated ..."; that step makes no provider call, leaves the store
\* unchanged and leaves _refresh_lock free.
C14_NotAuthenticatedFailsClean ==
    [][\A t \in Callers :
          (pc[t] = "locked" /\ pc'[t] # "locked" /\ NothingUsableStored)
              => /\ pc'[t] = "done"
                 /\ result'[t] = Raise(ValueError(MsgNotAuthenticated))
                 /\ refreshes' = refreshes
                 /\ _tokens' = _tokens
                 /\ _refresh_lock' = 0]_vars

\* C14 witness: with a stored set that has no refresh_token, one caller has
\* failed with "Not authenticated" and the next one holds the lock.
C14_Witness ==
    /\ _tokens = NoRefreshSet
    /\ refreshes = <<>>
    /\ \E t, u \in Callers :
        /\ pc[t] = "done"
        /\ result[t] = Raise(ValueError(MsgNotAuthenticated))
        /\ pc[u] = "locked" /\ _refresh_lock = u

\* Caller t has left get_authenticated_client with "Not authenticated".
NotAuthenticated(t) ==
    pc[t] = "done" /\ result[t] = Raise(ValueError(MsgNotAuthenticated))

\* C15: a data tool whose get_authenticated_client call ran while no tokens
\* were stored returns, whatever the API would have answered, a dict with
\* error "validation_error" and the message "Not authenticated. ...".
C15_ToolReportsNotAuthenticated ==
    \A t \in Callers :
        (pc[t] = "done" /\ _tokens = None)
            => \A api \in ApiOutcomes :
                  LET res == get_athlete(result[t], api)
                  IN  /\ IsError(res)
                      /\ res.error = "validation_error"
                      /\ res.message = MsgNotAuthenticated

\* C15 witness: every caller has returned from get_authenticated_client on
\* an empty store, and the tool result is the validation_error dict.
C15_Witness ==
    /\ _tokens = None
    /\ \A t \in Callers : NotAuthenticated(t)
    /\ get_athlete(result[1], Return(AthleteProfile)).error
          = "validation_error"

\* C16 as stated: a tool call that fails because no credentials are stored
\* reports the kind authentication_required, not validation_error.
C16_AuthenticationRequiredKind ==
    \A t \in Callers :
        NotAuthenticated(t)
            => \A api \in ApiOutcomes :
                  get_athlete(result[t], api).error
                      = "authentication_required"

\* The messages of the ValueErrors of get_client_id and get_client_secret.
ConfigurationMessages ==
    {MsgNoClientId, MsgNoClientSecret, str(int(NonNumeric.client_id).exc)}

\* C16 amended: a tool call that fails because no credentials are stored
\* reports the kind validation_error, the kind also reported for missing
\* or unusable configuration; the two cases differ in the message only.
C16_SameKindDifferentMessage ==
    \A t \in Callers :
        (pc[t] = "done" /\ Raised(result[t])
            /\ IsInstance(result[t].exc, "ValueError"))
            => \A api \in ApiOutcomes :
                  LET res == get_athlete(result[t], api)
                  IN  /\ res.error = "validation_error"
                      /\ res.action = ActionCheckStatus
                      /\ res.message = MsgNotAuthenticated
                            <=> NothingUsableStored
                      /\ res.message \in ConfigurationMessages
                            <=> ~NothingUsableStored

\* C16 witness: a caller has failed for lack of stored credentials and its
\* tool result has the kind validation_error with the "Not authenticated"
\* message.
C16_Witness ==
    /\ NothingUsableStored
    /\ \E t \in Callers :
        /\ NotAuthenticated(t)
        /\ get_athlete(result[t], Return(AthleteProfile))
              = [error |-> "validation_error",
                 message |-> MsgNotAuthenticated,
                 action |-> ActionCheckStatus]

\* The provider refresh call caller t made, in the history rs.
RefreshOf(rs, t) ==
    rs[CHOOSE i \in 1..Len(rs) : rs[i].caller = t]

\* C17: a caller that finds the stored set expired calls the provider's
\* refresh with the stored refresh_token; when the call succeeds the store
\* holds exactly the access_token, refresh_token and expires_at of the
\* response, the caller gets a client with the new access token, and the
\* tool, its API call succeeding, returns its normal result.
C17_RefreshReplacesStoredSet ==
    [][\A t \in Callers :
          /\ (pc[t] = "locked" /\ pc'[t] = "refreshing")
                => /\ is_token_expired(_tokens, now) = Return(TRUE)
                   /\ RefreshOf(refreshes', t).refresh_token
                         = _tokens["refresh_token"]
          /\ (pc[t] = "refreshing" /\ pc'[t] = "done"
                /\ ~Raised(RefreshOf(refreshes', t).out))
                => LET resp == RefreshOf(refreshes', t).out.ret
                   IN  /\ _tokens'
                             = [access_token |-> resp["access_token"],
                                refresh_token |-> resp["refresh_token"],
                                expires_at |-> resp["expires_at"]]
                       /\ ~Raised(result'[t])
                       /\ result'[t].ret.access_token = resp["access_token"]
                       /\ get_athlete(result'[t], Return(AthleteProfile))
                             = AthleteProfile]_vars

\* C17 witness: a refresh made with the stored refresh_token "r1" was
\* answered with a new access token and a new refresh_token, both of which
\* are now stored, and the caller holds a client for the new access token.
C17_Witness ==
    \E t \in Callers :
        /\ pc[t] = "done"
        /\ Len(refreshes) = 1
        /\ refreshes[1].caller = t
        /\ refreshes[1].refresh_token = "r1"
        /\ ~Raised(refreshes[1].out)
        /\ _tokens["access_token"] = "a2"
        /\ _tokens["refresh_token"] = "r2"
        /\ ~Raised(result[t])
        /\ result[t].ret.access_token = "a2"

\* A tool result that tells the caller to authenticate again.
TellsToReauthenticate(res) ==
    /\ IsError(res)
    /\ "action" \in DOMAIN res
    /\ res.action = ActionReauthenticate

\* C18: when the provider's refresh call of a caller fails, the caller gets
\* that failure as an exception and no client, the store holds what it held
\* before, and the tool returns an error dict; when the provider turned the
\* refresh down (an HTTP error), that dict tells the caller to authenticate
\* again.
C18_RefreshFailureSurfaced ==
    [][\A t \in Callers :
          (pc[t] = "refreshing" /\ pc'[t] = "done"
             /\ Raised(RefreshOf(refreshes', t).out))
             => LET e == RefreshOf(refreshes', t).out.exc
                    res == get_athlete(result'[t], Return(AthleteProfile))
                IN  /\ result'[t] = Raise(e)
                    /\ _tokens' = _tokens
                    /\ IsError(res)
                    /\ IsInstance(e, "HTTPError")
                          => TellsToReauthenticate(res)]_vars

\* C19, checked under SpecTools: get_auth_status, get_auth_url,
\* authenticate and logout return a dict in every case and never raise, also
\* when STRAVA_CLIENT_ID or STRAVA_CLIENT_SECRET is not set and when the
\* stored set lacks expires_at.
C19_LifecycleToolsNeverRaise ==
    last.op \in LifecycleTools => ~Raised(last.out)

\* Lock m was entered by a thread holding lock l, directly or through
\* other locks: the pairs of 'nested' followed one after the other.
Follows(R, S) ==
    {<<l, m>> \in LockNames \X LockNames :
        \E k \in LockNames : <<l, k>> \in R /\ <<k, m>> \in S}
NestedThrough ==
    LET two == nested \cup Follows(nested, nested)
    IN  two \cup Follows(two, nested)

\* No lock is entered, directly or through other locks, by a thread that
\* holds that lock already or a lock entered under it.
NoCyclicOrder == \A l \in LockNames : <<l, l>> \notin NestedThrough

\* A caller that is not inside get_authenticated_client, before a call or
\* after it left by a return or by an exception, does not hold
\* _refresh_lock; and the lock is held by a caller that is inside.
RefreshLockReleased ==
    /\ \A t \in Callers : pc[t] \in {"idle", "done"} => _refresh_lock # t
    /\ _refresh_lock \in Callers \cup {0}
    /\ \A t \in Callers :
          pc[t] \in {"idle", "waiting", "done"} => Held(t) = {}

\* Every caller waiting for _refresh_lock eventually acquires it.
WaitersAcquire ==
    \A t \in Callers : (pc[t] = "waiting") ~> (pc[t] = "locked")

\* The locks are granted without passing a caller over forever: a caller
\* that wants a lock which is free again and again enters it.
LocksGrantedFairly ==
    \A t \in Callers :
        SF_vars(LkAcquire(t) \/ LkLoadEnter(t) \/ LkSaveEnter(t))

\* C20 as stated, checked under SpecLive: the refresh lock, the store lock
\* and the state lock are never acquired in a cyclic order, the refresh lock
\* is released on every exit of get_authenticated_client, and, every
\* provider refresh call returning or failing, every caller waiting for the
\* refresh lock eventually acquires it.
C20_WaitersAlwaysAcquire ==
    /\ []NoCyclicOrder
    /\ []RefreshLockReleased
    /\ WaitersAcquire

\* C20 amended, checked under SpecLive: the three locks are never acquired
\* in a cyclic order, the refresh lock is released on every exit of
\* get_authenticated_client, and, every provider refresh call returning or
\* failing, every caller waiting for the refresh lock eventually acquires
\* it provided the locks are granted without passing a waiting caller over
\* forever.
C20_LockReleasedAndAcquired ==
    /\ []NoCyclicOrder
    /\ []RefreshLockReleased
    /\ LocksGrantedFairly => WaitersAcquire

\* C20 witness: a caller waits for _refresh_lock; the caller holding it has
\* a refresh response in hand and waits for _lock, which a thread saving a
\* set holds; a state was generated under _state_lock; a caller has entered
\* _lock under _refresh_lock before, and no lock was entered under another
\* in any other order.
C20_Witness ==
    /\ \E t, u \in Callers :
          /\ pc[t] = "saving" /\ _refresh_lock = t
          /\ pc[u] = "waiting"
    /\ _lock \notin Callers \cup {0}
    /\ th[1].op = "save_tokens"
    /\ StateToken(1) \in Issued
    /\ nested = {<<"_refresh_lock", "_lock">>}

(***************************************************************************)
(* Claims about the store under concurrent calls, checked under            *)
(* SpecThreads                                                             *)
(***************************************************************************)
\* The position of the return event of call i; past the end of the history
\* while the call has not returned.
RetOf(h, i) ==
    LET after == {j \in (i + 1)..Len(h) : h[j].t = h[i].t /\ h[j].e = "ret"}
    IN  IF after = {} THEN Len(h) + 1
        ELSE CHOOSE j \in after : \A k \in after : j <= k

\* The sequential store: the value a call leaves, and the outcome it has,
\* when it runs alone on the stored value v.
SeqStore(v, c) ==
    CASE c.op = "save_tokens" -> save_tokens(c.val)
      [] c.op = "delete_tokens" -> delete_tokens(v)
      [] OTHER -> v
SeqOutcome(v, c) ==
    IF c.op = "load_tokens" THEN Return(load_tokens(v)) ELSE Return(None)

\* Some total order of the calls in 'todo' that keeps call order (a call
\* that returned before another was made comes first) replays on the
\* sequential store, from value v, with the outcomes the history shows.
RECURSIVE Linearizes(_, _, _)
Linearizes(h, todo, v) ==
    \/ todo = {}
    \/ \E x \in todo :
        /\ \A y \in todo \ {x} : RetOf(h, y) > x
        /\ h[RetOf(h, x)].val = SeqOutcome(v, h[x])
        /\ Linearizes(h, todo \ {x}, SeqStore(v, h[x]))

\* The arguments of the save_tokens calls made so far.
SavedArgs(h) == {h[i].val : i \in {j \in CallsOf(h) : h[j].op = "save_tokens"}}

\* The outcomes of the load_tokens calls that have returned.
LoadOutcomes(h) ==
    {h[i].val : i \in {j \in 1..Len(h) :
                          h[j].e = "ret" /\ h[j].op = "load_tokens"}}

AllThreadsIdle == \A t \in 1..NumThreads : th[t].pc = "idle"

\* C12: every load_tokens result is None or, as a whole, the argument of one
\* save_tokens call; and once all calls have returned, some total order of
\* them that keeps call order explains every outcome as that of the
\* sequential store (each load returns the most recent save or delete).
C12_StoreLinearizable ==
    /\ \A out \in LoadOutcomes(hist) :
          \/ out = Return(None)
          \/ \E T \in SavedArgs(hist) : out = Return(T)
    /\ AllThreadsIdle => Linearizes(hist, CallsOf(hist), None)

\* C12 witness: a load was called while another thread's save was in
\* progress over a stored set, and returned the newer set as a whole.
C12_Witness ==
    /\ AllThreadsIdle
    /\ Len(hist) = 2 * MaxCalls
    /\ \E i, j, k \in CallsOf(hist) :
        /\ hist[i].op = "save_tokens" /\ hist[j].op = "save_tokens"
        /\ hist[k].op = "load_tokens"
        /\ hist[i].val # hist[j].val
        /\ RetOf(hist, i) < j
        /\ hist[j].t # hist[k].t
        /\ j < k /\ k < RetOf(hist, j)
        /\ hist[RetOf(hist, k)].val = Return(hist[j].val)

\* C13, checked under SpecObjects: when a caller assigns to a field of a
\* dict it got from load_tokens or passed to save_tokens, the stored set
\* stays as it was, and so does what load_tokens returns for it.
C13_StoreIsolatedFromCallers ==
    [][(last'.op = "assign" /\ heap' # heap)
          => /\ _tokens' = _tokens
             /\ load_tokens(_tokens') = load_tokens(_tokens)
             /\ _tokens' = Deref(heap', storeObj')]_vars

\* C13 witness: the dict passed to save_tokens and a dict returned by
\* load_tokens have both been changed by their holder, and the store still
\* holds the set that was saved.
C13_Witness ==
    /\ last.op = "assign"
    /\ saved.by = "save_tokens"
    /\ _tokens = saved.val
    /\ \E c \in CallerHeld :
        heap[c].from = "caller" /\ heap[c].passed /\ heap[c].val # _tokens
    /\ \E c \in CallerHeld :
        heap[c].from = "load" /\ heap[c].val # _tokens

(***************************************************************************)
(* Claims about tokens.py, checked under SpecStore                         *)
(***************************************************************************)
\* C7: is_token_expired(tokens) is true exactly when now >= expires_at; in
\* particular a token whose expires_at equals the current time is expired.
C7_ExpiredIffNowGeExpiresAt ==
    (last.op = "is_token_expired" /\ "expires_at" \in DOMAIN last.arg)
        => last.out = Return(last.at >= last.arg["expires_at"])

\* C8: is_token_expired returns true, without raising, for a token set
\* whose expires_at is missing and for one whose expires_at is 0.
C8_MissingOrZeroExpiryIsExpired ==
    (/\ last.op = "is_token_expired"
     /\ \/ "expires_at" \notin DOMAIN last.arg
        \/ last.arg["expires_at"] = 0)
        => last.out = Return(TRUE)

\* C9: for every token set T with access_token, refresh_token and
\* expires_at, a load_tokens() made after save_tokens(T) with no save or
\* delete in between returns a set equal to T.
C9_SaveLoadRoundTrip ==
    (/\ last.op = "load_tokens"
     /\ saved.by = "save_tokens"
     /\ Keys \subseteq DOMAIN saved.val)
        => last.out = Return(saved.val)

\* C9 witness: a load that followed the save of a three-field set which
\* replaced a different stored set, and returned the new set.
C9_Witness ==
    /\ last.op = "load_tokens"
    /\ saved.by = "save_tokens"
    /\ saved.over
    /\ Keys \subseteq DOMAIN saved.val
    /\ last.out = Return(saved.val)
    /\ saved.val["access_token"] = "a2"
    /\ saved.val["expires_at"] = last.at - 1

\* C10: load_tokens returns None and does not raise whenever no token set
\* has been saved since process start or since the last delete_tokens.
C10_LoadOnEmptyStoreIsNone ==
    (last.op = "load_tokens" /\ saved.by # "save_tokens")
        => last.out = Return(None)

\* C10 witness: a load made after delete_tokens removed a stored set.
C10_Witness ==
    /\ last.op = "load_tokens"
    /\ saved.by = "delete_tokens"
    /\ saved.over
    /\ last.out = Return(None)

\* C11: delete_tokens never raises, and right after it the store is empty
\* (None), whether it held a token set before, was empty, or had just been
\* emptied by another delete_tokens.
C11_DeleteIdempotent ==
    last.op = "delete_tokens"
        => /\ last.out = Return(None)
           /\ _tokens = None
           /\ saved.by = "delete_tokens"

\* C11 witness: the second of two delete_tokens calls in a row, made on the
\* store the first one left empty.
C11_Witness ==
    /\ last.op = "delete_tokens"
    /\ last.out = Return(None)
    /\ saved.by = "delete_tokens"
    /\ saved.after = "delete_tokens"
    /\ ~saved.over
    /\ _tokens = None

(***************************************************************************)
(* Claims about the OAuth listener, checked under SpecOAuth                *)
(***************************************************************************)
\* validate_oauth_state consumed no entry for 'state' before call i of it.
NotConsumedBefore(state, i) ==
    \A j \in 1..(i - 1) : ~vlog[state][j].ret

\* C3: a state token returned by generate_oauth_state is single-use: its
\* first validate_oauth_state made within the TTL returns true and every
\* later one returns false, in every interleaving of the callers (so at
\* most one validate of a token returns true).
C3_StateSingleUse ==
    \A state \in Issued :
        /\ (/\ Len(vlog[state]) >= 1
            /\ vlog[state][1].age \in 0..STATE_TTL_SECONDS)
               => vlog[state][1].ret
        /\ \A i \in 2..Len(vlog[state]) : ~vlog[state][i].ret

\* C3 witness: a token validated twice, true the first time, false the
\* second.
C3_Witness ==
    \E state \in Issued :
        /\ Len(vlog[state]) >= 2
        /\ vlog[state][1].ret
        /\ ~vlog[state][2].ret
        /\ state \notin DOMAIN _pending_states

\* A state that validate_oauth_state has to refuse when the age check reads
\* the clock at t: missing or empty, not pending (unknown or consumed), or
\* older than the TTL.
InvalidState(state, pending, t) ==
    \/ ~TruthyStr(state)
    \/ state \notin DOMAIN pending
    \/ t - pending[state] > STATE_TTL_SECONDS

\* C4: a callback request without an error parameter whose state is
\* missing, unknown, expired or already consumed renders the CSRF error
\* view, makes no code-for-token exchange call and leaves the credential
\* store unchanged, whatever code it carries.
C4_InvalidStateStopsCallback ==
    [][\A r \in 1..NumRequests :
          (/\ Received(r)
           /\ ~TruthyStr(ParamsOf(r).error)
           /\ InvalidState(ParamsOf(r).state, _pending_states, now'))
              => /\ cpc'[r] = "done"
                 /\ response'.req = r
                 /\ response'.view = ErrorView(MsgCsrf)
                 /\ exchanges' = exchanges
                 /\ _tokens' = _tokens]_vars

\* C4 witness: a callback replaying a consumed state together with a code
\* was answered with the CSRF error view.
C4_Witness ==
    /\ response.view = ErrorView(MsgCsrf)
    /\ response.error = Absent
    /\ response.code = "c1"
    /\ response.state \in DOMAIN removed
    /\ removed[response.state] = "consumed"
    /\ Len(vlog[response.state]) = 2
    /\ Len(exchanges) = 1

\* C5: a generated state token that has never been consumed validates true
\* while its age is at most the TTL and false once its age exceeds the TTL
\* (it leaves the pending collection only consumed or older than the TTL);
\* after a failed validation it is not in the pending collection.
C5_TtlBoundary ==
    \A state \in Issued :
        /\ \A i \in 1..Len(vlog[state]) :
              NotConsumedBefore(state, i) =>
                 /\ vlog[state][i].age >= 0 =>
                       (vlog[state][i].ret
                            <=> vlog[state][i].age <= STATE_TTL_SECONDS)
                 /\ vlog[state][i].age < 0 => ~vlog[state][i].ret
                 /\ ~vlog[state][i].ret => state \notin DOMAIN _pending_states
        /\ state \in DOMAIN removed => removed[state] # "early"

\* C5 witness: a never consumed token validated one second after the TTL
\* was refused and is gone from the pending collection.
C5_Witness ==
    \E state \in Issued :
        /\ Len(vlog[state]) = 1
        /\ vlog[state][1].age = STATE_TTL_SECONDS + 1
        /\ ~vlog[state][1].ret
        /\ state \notin DOMAIN _pending_states

\* C6: validate_oauth_state(None) and validate_oauth_state("") return false
\* (the callback renders the CSRF error view) and leave the pending-state
\* collection exactly as it was, entries older than the TTL included.
C6_EmptyStateLeavesPendingAlone ==
    [][\A r \in 1..NumRequests :
          (/\ Received(r)
           /\ ~TruthyStr(ParamsOf(r).error)
           /\ ~TruthyStr(ParamsOf(r).state))
              => /\ _pending_states' = _pending_states
                 /\ cpc'[r] = "done"
                 /\ response'.view = ErrorView(MsgCsrf)]_vars

\* C6 witness: a callback without state was refused while an entry older
\* than the TTL was pending, and that entry is still there.
C6_Witness ==
    /\ response.error = Absent
    /\ response.state = Absent
    /\ response.view = ErrorView(MsgCsrf)
    /\ response.stale
    /\ \E k \in DOMAIN _pending_states :
          now - _pending_states[k] > STATE_TTL_SECONDS

\* C21: a callback request that carries an error parameter renders the
\* error view with that error string and does nothing else: the state is
\* not validated (a pending state passed with it stays pending, and so does
\* every other entry), no exchange call is made and the credential store is
\* unchanged.
C21_ProviderErrorStopsCallback ==
    [][\A r \in 1..NumRequests :
          (Received(r) /\ TruthyStr(ParamsOf(r).error))
              => /\ cpc'[r] = "done"
                 /\ response'.req = r
                 /\ response'.view = ErrorView(ParamsOf(r).error)
                 /\ _pending_states' = _pending_states
                 /\ vlog' = vlog
                 /\ exchanges' = exchanges
                 /\ _tokens' = _tokens]_vars

\* C21 witness: a callback with error=access_denied, a pending state and a
\* code was answered with the error view; the state is still pending and
\* was never validated.
C21_Witness ==
    /\ response.error = "access_denied"
    /\ response.view = ErrorView("access_denied")
    /\ response.code = "c1"
    /\ response.state \in DOMAIN _pending_states
    /\ vlog[response.state] = <<>>
    /\ exchanges = <<>>

\* The exchange call of request r is answered in this step.
ExchangeAnswered(r) == cpc[r] = "exchanging" /\ cpc'[r] = "done"

\* The exchange call of request r returns a token response in this step.
ExchangeReturned(r) == cpc[r] = "exchanging" /\ cpc'[r] = "fetching"

\* The profile fetch of request r ends in this step, and the request is
\* answered.
ProfileAnswered(r) == cpc[r] = "fetching" /\ cpc'[r] = "done"

\* The exchange calls made so far for request r.
ExchangesOf(calls, r) == SelectSeq(calls, LAMBDA c : c.req = r)

\* C22: a callback request with no error, a pending unexpired state and a
\* code makes exactly one exchange call, with that code; when the exchange
\* returns a response the handler stores a token set whose access_token is
\* the one of that response, and when the profile fetch that follows ends,
\* failed or not, the handler renders the success view and leaves the store
\* as it is.
C22_ValidCallbackExchangesAndStores ==
    [][\A r \in 1..NumRequests :
          /\ (/\ Received(r)
              /\ ~TruthyStr(ParamsOf(r).error)
              /\ ~InvalidState(ParamsOf(r).state, _pending_states, now')
              /\ TruthyStr(ParamsOf(r).code))
                 => /\ cpc'[r] = "exchanging"
                    /\ exchanges' =
                          Append(exchanges,
                                 [req |-> r, code |-> ParamsOf(r).code])
                    /\ ExchangesOf(exchanges, r) = <<>>
          /\ (ExchangeAnswered(r) \/ ExchangeReturned(r))
                 => /\ exchanges' = exchanges
                    /\ Len(ExchangesOf(exchanges, r)) = 1
          /\ ExchangeReturned(r)
                 => /\ Truthy(_tokens')
                    /\ _tokens'.access_token =
                           req'[r].answer.ret.access_token
          /\ ProfileAnswered(r)
                 => /\ response'.req = r
                    /\ response'.answer = req[r].answer
                    /\ response'.view.name = "login_results.html"
                    /\ _tokens' = _tokens
                    /\ exchanges' = exchanges]_vars

\* C22 witness: a callback with a pending state and a code made one
\* exchange call; the provider answered, the profile fetch failed, the
\* success view was rendered and the store holds the access token of the
\* provider's response.
C22_Witness ==
    /\ response.error = Absent
    /\ response.code = "c1"
    /\ exchanges = <<[req |-> response.req, code |-> "c1"]>>
    /\ "ret" \in DOMAIN response.answer
    /\ response.view = ResultsView(None)
    /\ Truthy(_tokens)
    /\ _tokens.access_token = response.answer.ret.access_token
    /\ removed[response.state] = "consumed"

\* C23 as stated: a callback request with no error parameter and no code
\* parameter renders the missing-authorization-code error view, makes no
\* exchange call and stores no tokens (whatever its state parameter is).
C23_NoCodeRendersMissingCode ==
    [][\A r \in 1..NumRequests :
          (/\ Received(r)
           /\ ~TruthyStr(ParamsOf(r).error)
           /\ ~TruthyStr(ParamsOf(r).code))
              => /\ cpc'[r] = "done"
                 /\ response'.view = ErrorView(MsgMissingCode)
                 /\ exchanges' = exchanges
                 /\ _tokens' = _tokens]_vars

\* C23 amended: a callback request with no error parameter, a pending
\* unexpired state and no code renders the missing-authorization-code
\* error view; a callback request with no error and no code makes no
\* exchange call and stores no tokens, whichever error view it renders
\* (the CSRF error view when its state is not valid).
C23_NoCodeAfterValidState ==
    [][\A r \in 1..NumRequests :
          (/\ Received(r)
           /\ ~TruthyStr(ParamsOf(r).error)
           /\ ~TruthyStr(ParamsOf(r).code))
              => /\ cpc'[r] = "done"
                 /\ response'.req = r
                 /\ response'.view =
                        IF InvalidState(ParamsOf(r).state, _pending_states,
                                        now')
                        THEN ErrorView(MsgCsrf)
                        ELSE ErrorView(MsgMissingCode)
                 /\ exchanges' = exchanges
                 /\ _tokens' = _tokens]_vars

\* C23 witness: a callback with a pending state and no code was answered
\* with the missing-code view; no exchange call was made and nothing is
\* stored.
C23_Witness ==
    /\ response.error = Absent
    /\ response.code = Absent
    /\ response.state \in DOMAIN removed
    /\ removed[response.state] = "consumed"
    /\ response.view = ErrorView(MsgMissingCode)
    /\ exchanges = <<>>
    /\ _tokens = None

\* The message the callback owes to a failed exchange, by failure class:
\* HTTP 400, HTTP 401, any other HTTP error, a connection failure (a
\* connect timeout is one), a timeout, any other exception.
ExchangeFailureMessage(e) ==
    CASE e = HTTPError(400) -> MsgBadCode
      [] e = HTTPError(401) -> MsgBadClient
      [] e.cls = "HTTPError" /\ e \notin {HTTPError(400), HTTPError(401)}
            -> MsgExchangeFailed
      [] e.cls \in {"ConnectionError", "ConnectTimeout"} -> MsgConnect
      [] e.cls = "ReadTimeout" -> MsgTimeout
      [] OTHER -> MsgUnexpected(e)

\* C24: when the code exchange of a callback fails, the callback answers
\* with the error view carrying the message of the failure's class, stores
\* no tokens, and the listener keeps serving: the other requests, the
\* pending states and the authorization page are left as they were.
C24_ExchangeFailureMapped ==
    [][\A r \in 1..NumRequests :
          (ExchangeAnswered(r) /\ Raised(response'.answer))
              => /\ response'.req = r
                 /\ response'.view =
                        ErrorView(ExchangeFailureMessage(response'.answer.exc))
                 /\ _tokens' = _tokens
                 /\ \A q \in 1..NumRequests \ {r} : cpc'[q] = cpc[q]
                 /\ UNCHANGED <<_pending_states, exchanges, page>>]_vars

\* C24 witness: the exchange of the first request failed (nothing is
\* stored), and the listener answered a later request, which replayed the
\* consumed state.
C24_Witness ==
    /\ exchanges = <<[req |-> 1, code |-> "c1"]>>
    /\ cpc[1] = "done"
    /\ _tokens = None
    /\ response.req = 2
    /\ response.state \in DOMAIN removed
    /\ response.view = ErrorView(MsgCsrf)

\* The messages of the error views of a failed exchange.
ExchangeFailureMessages ==
    {MsgBadCode, MsgBadClient, MsgExchangeFailed, MsgConnect, MsgTimeout}
        \cup {MsgUnexpected(e) : e \in ProviderFailures}

\* The outcomes of the authorization attempt that the answer resp shows.
Outcomes(resp) ==
    {o \in {"ProviderError", "StateInvalid", "CodeMissing", "ExchangeFailed",
            "Authenticated"} :
        CASE o = "ProviderError" ->
                TruthyStr(resp.error) /\ resp.view = ErrorView(resp.error)
          [] o = "StateInvalid" -> resp.view = ErrorView(MsgCsrf)
          [] o = "CodeMissing" -> resp.view = ErrorView(MsgMissingCode)
          [] o = "ExchangeFailed" ->
                resp.view \in {ErrorView(m) : m \in ExchangeFailureMessages}
          [] o = "Authenticated" -> resp.view.name = "login_results.html"}

\* Request r is answered in this step.
AnsweredNow(r) == cpc[r] # "done" /\ cpc'[r] = "done"

\* C25: every callback request that is answered ends in exactly one of the
\* outcomes provider error, StateInvalid, CodeMissing, ExchangeFailed and
\* Authenticated, the one its parameters and its exchange lead to, is never
\* taken up again and makes at most one exchange call; a state that passed
\* validation is consumed whatever the outcome, and a callback with a state
\* that has left the pending collection ends in StateInvalid.
C25_OneOutcomePerCallback ==
    [][\A r \in 1..NumRequests :
          /\ AnsweredNow(r) =>
                /\ response'.req = r
                /\ Outcomes(response') =
                     {IF ~Received(r)
                      THEN IF Raised(response'.answer) THEN "ExchangeFailed"
                           ELSE "Authenticated"
                      ELSE IF TruthyStr(response'.error) THEN "ProviderError"
                      ELSE IF InvalidState(response'.state, _pending_states,
                                           now')
                      THEN "StateInvalid"
                      ELSE "CodeMissing"}
          /\ cpc[r] = "done" => cpc'[r] = "done"
          /\ Len(ExchangesOf(exchanges', r)) <= 1
          /\ (/\ Received(r)
              /\ ~TruthyStr(ParamsOf(r).error)
              /\ ~InvalidState(ParamsOf(r).state, _pending_states, now'))
                 => /\ ParamsOf(r).state \notin DOMAIN _pending_states'
                    /\ removed'[ParamsOf(r).state] = "consumed"
          /\ (/\ Received(r)
              /\ ~TruthyStr(ParamsOf(r).error)
              /\ ParamsOf(r).state \in DOMAIN removed)
                 => /\ AnsweredNow(r)
                    /\ Outcomes(response') = {"StateInvalid"}
          /\ \A k \in DOMAIN removed : k \notin DOMAIN _pending_states']_vars

\* C25 witness: a first callback without a code ended in CodeMissing and
\* consumed its state; the second callback, with the same state and a code,
\* ended in StateInvalid without an exchange call.
C25_Witness ==
    /\ response.req = 2
    /\ response.error = Absent
    /\ response.code = "c1"
    /\ response.state \in Issued
    /\ Len(vlog[response.state]) = 2
    /\ vlog[response.state][1].ret
    /\ Outcomes(response) = {"StateInvalid"}
    /\ exchanges = <<>>

\* The authorization page is rendered anew in this step.
Rendered == page' # page

\* The parts of the claim that do not concern the scopes: without
\* credentials the configuration-error view and no new pending state; with
\* them exactly one new pending state, which the rendered URL embeds.
LoginStateEmbedded ==
    IF ~has_credentials(env)
    THEN /\ page' = ErrorView(MsgNotConfigured)
         /\ _pending_states' = _pending_states
    ELSE /\ page'.name = "login.html"
         /\ \E state \in StateTokens \ Issued :
               /\ DOMAIN _pending_states' \ DOMAIN _pending_states = {state}
               /\ _pending_states'[state] = now'
               /\ "state" \in DOMAIN page'.authorize_url
               /\ page'.authorize_url.state = state

\* C26: the authorization page, when application credentials are not
\* configured, renders the configuration-error view and adds no entry to
\* the pending-state collection; when they are configured it generates
\* exactly one new pending state and the authorization URL it renders
\* embeds that state and the requested scopes.
C26_LoginEmbedsStateAndScopes ==
    [][Rendered =>
          /\ LoginStateEmbedded
          /\ has_credentials(env) =>
                /\ "scope" \in DOMAIN page'.authorize_url
                /\ page'.authorize_url.scope = Scopes]_vars

\* The claim without the scopes holds of every rendering of the page.
C26_StateEmbedded == [][Rendered => LoginStateEmbedded]_vars

(***************************************************************************)
(* Claims about the authorization flow, checked under SpecFlow             *)
(***************************************************************************)
\* Request r, received in this step, is the provider's redirect of an
\* approved authorization that was started from the URL of get_auth_url.
ApprovedFromTool(r) ==
    /\ Received(r)
    /\ TruthyStr(ParamsOf(r).code)
    /\ \E url \in ToolUrls : ParamsOf(r) \in RedirectParams(url)

\* C27: an authorization started from the URL returned by the get_auth_url
\* tool completes automatically: when the provider redirects it to the
\* local callback with a valid code, the callback exchanges the code (and
\* the tokens of the provider's answer are then saved).
C27_ToolUrlCompletesAutomatically ==
    [][\A r \in 1..NumRequests :
          ApprovedFromTool(r) =>
              /\ cpc'[r] = "exchanging"
              /\ exchanges' = Append(exchanges,
                                     [req |-> r, code |-> ParamsOf(r).code])
      ]_vars

\* What the callback does with such a redirect: the URL of the tool carries
\* no state, so the request is refused with the CSRF error view, no
\* exchange call is made and nothing is stored.
C27_ToolUrlRefused ==
    [][\A r \in 1..NumRequests :
          ApprovedFromTool(r) =>
              /\ cpc'[r] = "done"
              /\ response'.view = ErrorView(MsgCsrf)
              /\ exchanges' = exchanges
              /\ _tokens' = _tokens]_vars

(***************************************************************************)
(* Claims about a session, checked under SpecSession                       *)
(***************************************************************************)
\* logout was the last lifecycle tool to return: no code exchange has
\* succeeded since.
LoggedOut == last.op = "logout"

\* Caller t loads and checks the stored tokens in this step.
Loads(t) == pc[t] = "locked" /\ pc'[t] # "locked"

\* C28: logout always returns success, also when nothing is stored; once
\* logout has returned and until a later code exchange, load_tokens returns
\* None and every get_authenticated_client call that loads the tokens fails
\* as not authenticated (the data tool returns that error), in every
\* interleaving with get_authenticated_client calls running concurrently.
C28_LogoutEndsSession ==
    [][/\ LoggedOut' =>
             /\ ~Raised(last'.out)
             /\ last'.out.ret.success
             /\ load_tokens(_tokens') = None
       /\ \A t \in 1..NumCallers :
             (LoggedOut /\ Loads(t)) =>
                 /\ result'[t] = Raise(ValueError(MsgNotAuthenticated))
                 /\ get_athlete(result'[t], Return(AthleteProfile)).message
                        = MsgNotAuthenticated]_vars

\* The part of the claim that holds: logout returns success whatever is
\* stored, and the store is empty when it returns.
C28_LogoutClearsStore ==
    [][last' # last /\ LoggedOut' =>
             /\ last'.out = Return([success |-> TRUE,
                                    message |->
                                 "Logged out successfully. Tokens cleared."])
             /\ _tokens' = None]_vars

(***************************************************************************)
(* Claims about the data tools, checked under SpecData                     *)
(***************************************************************************)
\* The body of the data tool that returned last raised the exception e.
BodyRaised(e) ==
    /\ last.op \in DataTools
    /\ "body" \in DOMAIN last
    /\ last.body = Raise(e)

\* The dict the tool called last returned.
Returned_dict == last.out.ret

\* The exceptions the claim is checked for: the failures of a provider
\* call, those of get_authenticated_client, of the geocoder and of
\* _geocode_location.
RaisedInTools ==
    ToolFailures
        \cup {ValueError(MsgNotAuthenticated),
              ValueError("Could not find location: Paris"),
              Exc("GeocoderUnavailable")}

\* The kinds the claim names for the exception e, None for an exception it
\* leaves to "any other exception".
NamedKind(e) ==
    CASE e = HTTPError(429) -> "rate_limited"
      [] e = HTTPError(401) -> "unauthorized"
      [] e = HTTPError(404) -> "not_found"
      [] e = HTTPError(403) -> "forbidden"
      [] e.cls \in {"ConnectionError", "ConnectTimeout"} -> "network_error"
      [] e.cls = "ReadTimeout" -> "timeout"
      [] OTHER -> "other"

\* C29 as stated: every exception raised inside a wrapped tool becomes a
\* returned dict: HTTP 429 gives rate_limited with retry_after_seconds 900,
\* 401 unauthorized, 404 not_found, 403 forbidden, a connection failure
\* network_error, a timeout timeout, and any other exception
\* unexpected_error with the exception's type name.
C29_AnyOtherIsUnexpected ==
    \A e \in RaisedInTools :
        BodyRaised(e) =>
            /\ ~Raised(last.out)
            /\ IF NamedKind(e) = "other"
               THEN /\ Returned_dict.error = "unexpected_error"
                    /\ Returned_dict.type = e.cls
               ELSE Returned_dict.error = NamedKind(e)
            /\ e = HTTPError(429) => Returned_dict.retry_after_seconds = 900

\* C29 amended: every exception raised inside a wrapped tool becomes a
\* returned dict: a ValueError gives validation_error with its message,
\* HTTP 429 rate_limited with retry_after_seconds 900, 401 unauthorized,
\* 404 not_found, 403 forbidden, any other HTTP error api_error with the
\* exception's message and the status code None (the status is read only
\* from a response that is truthy, and a response with an error status is
\* not), a connection failure network_error, a timeout timeout, and any
\* other exception unexpected_error with the exception's type name.
C29_ExceptionsBecomeDicts ==
    \A e \in RaisedInTools :
        BodyRaised(e) =>
            /\ ~Raised(last.out)
            /\ IsError(Returned_dict)
            /\ Returned_dict.error =
                 (CASE NamedKind(e) # "other" -> NamedKind(e)
                    [] NamedKind(e) = "other" /\ e.cls = "ValueError"
                          -> "validation_error"
                    [] NamedKind(e) = "other" /\ e.cls = "HTTPError"
                          -> "api_error"
                    [] OTHER -> "unexpected_error")
            /\ e = HTTPError(429) => Returned_dict.retry_after_seconds = 900
            /\ e.cls = "ValueError" => Returned_dict.message = str(e)
            /\ Returned_dict.error = "api_error"
                  => /\ Returned_dict.message = str(e)
                     /\ Returned_dict.status_code = Return(None)
            /\ Returned_dict.error = "unexpected_error"
                  => Returned_dict.type = e.cls

\* C29 witness: the provider call of a data tool was answered HTTP 500 and
\* the tool returned api_error with the exception's message and the status
\* code None.
C29_Witness ==
    /\ BodyRaised(HTTPError(500))
    /\ Returned_dict.error = "api_error"
    /\ Returned_dict.message = "500 Error"
    /\ Returned_dict.status_code = Return(None)
    /\ Truthy(_tokens)

\* The provider call of a data tool raised an exception of a class of its
\* own and the tool returned unexpected_error naming it.
C29_WitnessUnexpected ==
    /\ BodyRaised(Exc("Fault"))
    /\ Returned_dict.error = "unexpected_error"
    /\ Returned_dict.type = "Fault"
    /\ Truthy(_tokens)

\* A call of tool op with keyword arguments kw that input validation has
\* to reject: an id below 1, a limit below 1, an empty geocode query, a
\* radius that is not in (0, 50], both or neither of location and bounds.
Rejected(op, kw) ==
    \/ \E id \in {"athlete_id", "activity_id", "segment_id", "route_id",
                   "club_id"} : id \in DOMAIN kw /\ kw[id] < 1
    \/ "limit" \in DOMAIN kw /\ kw.limit < 1
    \/ /\ op = "geocode_location"
       /\ \/ kw.query = ""
          \/ ~(0 < kw.radius_km /\ kw.radius_km <= 50)
    \/ /\ op = "explore_running_segments"
       /\ \/ ("location" \in DOMAIN kw) = ("bounds" \in DOMAIN kw)
          \/ /\ "location" \in DOMAIN kw
             /\ "radius_km" \in DOMAIN kw
             /\ ~(0 < kw.radius_km /\ kw.radius_km <= 50)

\* C30: a tool call rejected by input validation returns a validation_error
\* result without calling get_authenticated_client: no token is loaded, no
\* refresh and no provider call is made and the store is unchanged, also
\* when the stored token is expired or absent.
C30_RejectedCallTouchesNothing ==
    [][(/\ last' # last
        /\ last'.op \in DataTools
        /\ Rejected(last'.op, last'.arg))
           => /\ IsError(last'.out.ret)
              /\ last'.out.ret.error = "validation_error"
              /\ last'.calls = <<>>
              /\ \A t \in Callers : pc[t] = "idle" => pc'[t] = "idle"
              /\ UNCHANGED <<_tokens, refreshes, _refresh_lock>>]_vars

\* C30 witness: get_segment(0) was refused with validation_error while the
\* stored set is expired; no call was made and the expired set is still
\* stored.
C30_Witness ==
    /\ last.op = "get_segment"
    /\ last.arg.segment_id = 0
    /\ last.out.ret.error = "validation_error"
    /\ last.calls = <<>>
    /\ StoredExpired
    /\ CredentialsReadable(env)

(***************************************************************************)
(* Claims about the lifecycle tools, checked under SpecTools               *)
(***************************************************************************)
\* A token set as the provider hands it out carries its expiry.
HasExpiry(store) == Truthy(store) /\ "expires_at" \in DOMAIN store

\* C31: get_auth_status reports authenticated false exactly when the store
\* is empty; for a stored token set it reports authenticated true and an
\* is_expired flag equal to is_token_expired of that set; the call makes no
\* refresh, no exchange and no write to the store, also when the stored set
\* is expired.
C31_StatusReadsStoreOnly ==
    [][(last' # last /\ last'.op = "get_auth_status")
          => LET out == last'.out
             IN  /\ _tokens' = _tokens
                 /\ saved' = saved
                 /\ refreshes' = refreshes
                 /\ exchanges' = exchanges
                 /\ (~Raised(out) /\ ~out.ret.authenticated)
                        <=> ~Truthy(_tokens)
                 /\ HasExpiry(_tokens)
                        => /\ ~Raised(out)
                           /\ out.ret.authenticated
                           /\ out.ret.is_expired
                                  = is_token_expired(_tokens, now).ret]_vars

\* C31 witness: the status of an expired stored set was asked for; the
\* answer says authenticated and expired, and the expired set is still
\* stored.
C31_Witness ==
    /\ last.op = "get_auth_status"
    /\ HasExpiry(_tokens)
    /\ _tokens["expires_at"] < now
    /\ ~Raised(last.out)
    /\ last.out.ret.authenticated
    /\ last.out.ret.is_expired
    /\ refreshes = <<>>

\* The exchange calls among the provider calls of a tool call.
ExchangeCalls(calls) ==
    { i \in 1..Len(calls) : calls[i].op = "exchange_code_for_token" }

\* An authenticate call returns in this step.
AuthenticateReturns == last' # last /\ last'.op = "authenticate"

\* The exchange call of authenticate returns a token response in this step.
AuthenticateSaves == auth.pc = "exchanging" /\ auth'.pc = "fetching"

\* C32: authenticate with an empty or whitespace-only code returns
\* validation_error, makes no exchange call and leaves the store as it was;
\* with any other code, when the exchange returns a response it stores the
\* token set of that response, and when the profile fetch succeeds too it
\* returns success with the athlete's id, having made one exchange call,
\* with the code it was given.
C32_AuthenticateValidatesThenStores ==
    [][/\ AuthenticateReturns
          => LET code == last'.arg.code
                 calls == last'.calls
                 res == last'.out.ret
             IN  /\ code \in BlankCodes
                    => /\ res.error = "validation_error"
                       /\ ExchangeCalls(calls) = {}
                       /\ auth = NoAuth
                       /\ _tokens' = _tokens
                 /\ (/\ Len(calls) = 2
                     /\ ~Raised(calls[2].out))
                    => /\ ExchangeCalls(calls) = {1}
                       /\ calls[1].code = code
                       /\ calls[1].out = Return(auth.resp)
                       /\ "success" \in DOMAIN res
                       /\ res.success
                       /\ res.athlete_id = calls[2].out.ret.id
       /\ AuthenticateSaves
          => /\ auth.code \notin BlankCodes
             /\ _tokens' = [k \in Keys |-> auth'.resp[k]]]_vars

\* C32 witness: a set was stored, authenticate("c1") exchanged the code and
\* fetched the profile, and the store now holds the other set, the one the
\* provider answered with.
C32_Witness ==
    /\ last.op = "authenticate"
    /\ last.arg.code = "c1"
    /\ Len(last.calls) = 2
    /\ "success" \in DOMAIN last.out.ret
    /\ last.out.ret.athlete_id = AthleteProfile.id
    /\ last.out.ret.message = "Successfully authenticated as Ada Lovelace"
    /\ saved.by = "save_tokens"
    /\ saved.val # _tokens
    /\ _tokens = last.calls[1].out.ret

\* C32 witness of the refusal: authenticate(" ") was refused while a set
\* was stored; there was no provider call and the set is still stored.
C32_WitnessBlank ==
    /\ last.op = "authenticate"
    /\ last.arg.code = " "
    /\ last.out.ret.error = "validation_error"
    /\ last.calls = <<>>
    /\ Truthy(_tokens)

(***************************************************************************)
(* Claims about the responses of the listener, checked under SpecFlow      *)
(***************************************************************************)
\* The sources a policy allows for a directive: those it lists for it, or
\* those of default-src when it does not name the directive.
Sources(csp, directive) ==
    IF directive \in DOMAIN csp THEN csp[directive] ELSE csp["default-src"]

\* The headers carry a header of that name.
Carries(headers, name) == name \in DOMAIN headers

\* Sniffing disabled, framing denied and a strict referrer policy.
BasicHardening(headers) ==
    /\ Carries(headers, "X-Content-Type-Options")
    /\ headers["X-Content-Type-Options"] = "nosniff"
    /\ Carries(headers, "X-Frame-Options")
    /\ headers["X-Frame-Options"] = "DENY"
    /\ Carries(headers, "Referrer-Policy")
    /\ headers["Referrer-Policy"] = "strict-origin-when-cross-origin"
    /\ Carries(headers, "Content-Security-Policy")

\* C33: every response of the listener (authorization page, configuration
\* error, each callback outcome, static files) carries the hardening
\* headers: sniffing disabled, framing denied, a strict referrer policy and
\* a content-security-policy that allows only same-origin scripts and
\* styles plus data-URI images.
C33_EveryResponseHardened ==
    sent # NoSent
        => /\ BasicHardening(sent.headers)
           /\ LET csp == sent.headers["Content-Security-Policy"]
              IN  /\ Sources(csp, "script-src") = {"'self'"}
                  /\ Sources(csp, "style-src") = {"'self'"}
                  /\ Sources(csp, "img-src") = {"'self'", "data:"}

\* What does hold of every response a handler returned: the first three
\* headers as claimed, scripts from the same origin only and images from it
\* or from data URIs; the policy allows inline styles besides same-origin
\* ones. The 500 sent for an exception that left a handler carries none of
\* the headers.
C33_HeadersOnEveryResponse ==
    (sent # NoSent /\ sent # InternalServerError)
        => /\ BasicHardening(sent.headers)
           /\ LET csp == sent.headers["Content-Security-Policy"]
              IN  /\ Sources(csp, "script-src") = {"'self'"}
                  /\ Sources(csp, "style-src") = {"'self'", "'unsafe-inline'"}
                  /\ Sources(csp, "img-src") = {"'self'", "data:"}

\* A static file was served after a callback was refused.
C33_StaticServed ==
    /\ sent.status_code = 404
    /\ response # NoResponse
    /\ page # NoView

(***************************************************************************)
(* Claims about the state tracker, checked under SpecStates                *)
(***************************************************************************)
\* This step is a generate_oauth_state call, or a validate_oauth_state call
\* with a non-empty token.
TrackerCall ==
    \/ StateGenerate
    \/ \E state \in StateParams : TruthyStr(state) /\ StateValidate(state)

\* The state tokens generated within the TTL before time t and not consumed.
RecentUnconsumed(at, gone, t) ==
    { k \in DOMAIN at :
        /\ t - at[k] <= STATE_TTL_SECONDS
        /\ ~(k \in DOMAIN gone /\ gone[k] = "consumed") }

\* C34: after every generate_oauth_state call and every validate_oauth_state
\* call with a non-empty token, the pending-state collection holds no entry
\* older than the TTL at the clock reading of the call's cleanup, so it is
\* no larger than the set of states generated within the last TTL and not
\* yet consumed, however many logins were abandoned.
C34_PendingStatesBounded ==
    [][TrackerCall
          => /\ \A k \in DOMAIN _pending_states' :
                   now - _pending_states'[k] <= STATE_TTL_SECONDS
             /\ DOMAIN _pending_states'
                    \subseteq RecentUnconsumed(issuedAt', removed', now)
             /\ Cardinality(DOMAIN _pending_states')
                    <= Cardinality(RecentUnconsumed(issuedAt', removed',
                                                    now))]_vars

\* C34 witness: two logins were abandoned for longer than the TTL; a call
\* made after a third login purged both, and only the third token is
\* pending.
C34_Witness ==
    /\ Cardinality(Issued) = 3
    /\ Cardinality(DOMAIN _pending_states) = 1
    /\ Cardinality({k \in DOMAIN removed : removed[k] = "expired"}) = 2
    /\ \A k \in Issued : vlog[k] = <<>>
    /\ \E k \in DOMAIN _pending_states :
          issuedAt[k] - StartTime > STATE_TTL_SECONDS

(***************************************************************************)
(* Further claims about get_authenticated_client, checked under Spec       *)
(***************************************************************************)
\* The stored set has all three fields and the clock has not passed its
\* expiry.
StoredFresh ==
    /\ Truthy(_tokens)
    /\ Keys \subseteq DOMAIN _tokens
    /\ is_token_expired(_tokens, now) = Return(FALSE)

\* C35: every get_authenticated_client call evaluates expiry against the
\* clock and the stored set as they are when it loads the tokens: once the
\* clock has passed expires_at the call makes a refresh with the stored
\* refresh_token, also when an earlier call found the same set unexpired;
\* before that it returns a client for the stored set without a refresh.
C35_ExpiryCheckedEachCall ==
    [][\A t \in 1..NumCallers :
          Loads(t)
             => /\ (StoredExpired /\ CredentialsReadable(env))
                    => /\ pc'[t] = "refreshing"
                       /\ refreshes' =
                              Append(refreshes,
                                     RefreshCall(t, _tokens["refresh_token"]))
                /\ StoredFresh
                    => /\ pc'[t] = "done"
                       /\ result'[t] = Client(_tokens)
                       /\ refreshes' = refreshes]_vars

\* C35 witness: one caller was handed a client for the stored set, found
\* unexpired; the clock passed expires_at, and the other caller's call is
\* refreshing that same set.
C35_Witness ==
    \E t1, t2 \in 1..NumCallers :
        /\ t1 # t2
        /\ pc[t1] = "done"
        /\ ~calledExpired[t1]
        /\ result[t1] = Client(_tokens)
        /\ pc[t2] = "refreshing"
        /\ refreshes = <<RefreshCall(t2, _tokens["refresh_token"])>>
        /\ now > _tokens["expires_at"]

(***************************************************************************)
(* Claims about the writers of the store, checked under SpecWriters        *)
(***************************************************************************)
\* The provider responses received in this step: the answer of a refresh
\* call, of the exchange of a callback, or of the exchange of authenticate.
Received_responses ==
    (IF refreshes' # refreshes
     THEN { refreshes'[i].out.ret :
              i \in { j \in 1..Len(refreshes) :
                        /\ refreshes[j].out = InFlight
                        /\ ~Raised(refreshes'[j].out) } }
     ELSE {})
    \cup { req'[r].answer.ret :
             r \in { q \in 1..NumRequests : ExchangeReturned(q) } }
    \cup (IF AuthenticateSaves THEN {auth'.resp} ELSE {})

\* C36: a token set put in the store by the callback, by the authenticate
\* tool or by a refresh has exactly the fields access_token, refresh_token
\* and expires_at, each copied from the one provider response received in
\* that step; expires_at is the provider's value.
C36_StoredSetIsOneProviderResponse ==
    [][(_tokens' # _tokens /\ Truthy(_tokens'))
          => \E resp \in Received_responses :
                /\ DOMAIN _tokens' = Keys
                /\ \A k \in Keys : _tokens'[k] = resp[k]]_vars

\* C36 witness: a refresh, the authenticate tool and a callback have each
\* received a token response, and the store holds the set of the callback.
C36_Witness ==
    /\ \E i \in 1..Len(refreshes) : "ret" \in DOMAIN refreshes[i].out
    /\ last.op = "authenticate"
    /\ "success" \in DOMAIN last.out.ret
    /\ "ret" \in DOMAIN response.answer
    /\ _tokens = response.answer.ret
    /\ _tokens # last.calls[1].out.ret

(***************************************************************************)
(* Claims about the listener thread, checked under SpecManager             *)
(***************************************************************************)
\* The listener threads alive.
Alive(ls) == { i \in 1..Len(ls) : ls[i] = "alive" }

\* This step is a call of OAuthServerManager.start, from main or from the
\* get_auth_url tool.
StartCall == main \/ ManagerGetAuthUrl

\* C37: OAuthServerManager.start called while the listener thread is alive
\* returns True without creating another thread, so after any sequence of
\* start calls from main and from get_auth_url at most one listener thread
\* is alive; when creating the listener fails, start returns False (it does
\* not raise) and no thread is alive.
C37_StartIdempotent ==
    [][StartCall
          => /\ is_alive(_thread, listeners)
                 => /\ last'.start
                    /\ listeners' = listeners
                    /\ _thread' = _thread
             /\ Cardinality(Alive(listeners')) <= 1
             /\ last'.start <=> Cardinality(Alive(listeners')) = 1]_vars

\* C37 witness: creating the listener failed in main; get_auth_url started
\* a thread, which ended, and then a second one, which is the only one
\* alive.
C37_Witness ==
    /\ last.op = "get_auth_url"
    /\ last.start
    /\ listeners = <<"unstarted", "dead", "alive">>
    /\ _thread = 3

\* C37 witness of a failure: creating the listener failed in main, and
\* start returned False.
C37_WitnessFailed ==
    /\ last.op = "main"
    /\ ~last.start
    /\ Alive(listeners) = {}

\* The stored set is the one a code exchange answered with: the exchange of
\* the authenticate call made last or of the callback answered last.
StoredByExchange ==
    \/ /\ last.op = "authenticate"
       /\ last.calls # <<>>
       /\ ~Raised(last.calls[1].out)
       /\ last.calls[1].out.ret = _tokens
    \/ /\ auth.pc = "fetching"
       /\ auth.resp = _tokens
    \/ /\ "ret" \in DOMAIN response.answer
       /\ response.answer.ret = _tokens

\* The refresh call refreshes[i] is answered with a token set in this step.
RefreshAnswered(i) ==
    /\ refreshes[i].out = InFlight
    /\ "ret" \in DOMAIN refreshes'[i].out

\* C38: a token set saved by a successful code exchange (callback or
\* authenticate tool) is never overwritten by the result of a refresh that
\* was started from an older stored refresh_token: when such a refresh is
\* answered, the store keeps the set of the exchange.
C38_ExchangeOutlivesOlderRefresh ==
    [][\A i \in 1..Len(refreshes) :
          (/\ RefreshAnswered(i)
           /\ StoredByExchange
           /\ refreshes[i].refresh_token # _tokens["refresh_token"])
              => _tokens' = _tokens]_vars

\* What holds instead: the answer of a refresh is stored whatever was saved
\* while the call was in flight.
C38_RefreshOverwrites ==
    [][\A i \in 1..Len(refreshes) :
          RefreshAnswered(i)
              => _tokens' = [k \in Keys |-> refreshes'[i].out.ret[k]]]_vars

\* C39: a get_authenticated_client call that finds the stored set not
\* expired makes no provider call and writes nothing to the store; it
\* leaves the lock and returns a client carrying the stored access token.
C39_FreshSetUsedAsStored ==
    [][\A t \in 1..NumCallers :
          (Loads(t) /\ StoredFresh)
             => /\ refreshes' = refreshes
                /\ _tokens' = _tokens
                /\ _refresh_lock' = 0
                /\ pc'[t] = "done"
                /\ ~Raised(result'[t])
                /\ result'[t].ret.access_token
                       = _tokens["access_token"]]_vars

\* C39 witness: every caller has returned with a client for the stored,
\* unexpired set; no refresh call was made.
C39_Witness ==
    /\ AllCallersDone
    /\ StoredFresh
    /\ refreshes = <<>>
    /\ \A t \in 1..NumCallers :
          /\ ~Raised(result[t])
          /\ result[t].ret.access_token = _tokens["access_token"]

\* C40: authenticate saves the token set as soon as the exchange succeeds,
\* before the profile fetch: when the exchange has succeeded and the fetch
\* fails, the tool returns an error result and leaves the store as it is;
\* the store holding the set of the exchange, get_auth_status then reports
\* authenticated true.
C40_TokensKeptWhenProfileFails ==
    [][/\ AuthenticateSaves
          => /\ _tokens' = [k \in Keys |-> auth'.resp[k]]
             /\ auth'.access_token = _tokens'["access_token"]
             /\ last' = last
       /\ (/\ AuthenticateReturns
           /\ Len(last'.calls) = 2
           /\ Raised(last'.calls[2].out))
          => /\ IsError(last'.out.ret)
             /\ "success" \notin DOMAIN last'.out.ret
             /\ auth.pc = "fetching"
             /\ last'.calls[1].out = Return(auth.resp)
             /\ _tokens' = _tokens
             /\ _tokens = auth.resp
                    => /\ ~Raised(get_auth_status(_tokens', now'))
                       /\ get_auth_status(_tokens', now').ret.authenticated]_vars

\* C40 witness: nothing was stored, authenticate("c1") exchanged the code,
\* the profile fetch failed and the tool returned an error; the set of the
\* exchange is stored.
C40_Witness ==
    /\ last.op = "authenticate"
    /\ Len(last.calls) = 2
    /\ Raised(last.calls[2].out)
    /\ IsError(last.out.ret)
    /\ saved = NoWrite
    /\ _tokens = last.calls[1].out.ret

====
